---- MODULE Spec2Model ----
(***************************************************************************)
(* A model of the siger-api-gateway: the in-memory job store and the       *)
(* jobs.status consumer (internal/storage, internal/messaging), the        *)
(* gateway's startup wiring (cmd/main.go), the connection-tracking load    *)
(* balancer (internal/discovery) and the reverse proxy (internal/proxy).   *)
(*                                                                         *)
(* Each subsystem has its own specification over the shared variables:     *)
(*   SpecJobs   the job store, the HTTP job handlers and a NATS client     *)
(*              that holds the store and has subscribed to jobs.status     *)
(*   SpecMain   main(): the startup sequence, then the serving gateway     *)
(*   SpecLB     one LoadBalancer used through its exported methods         *)
(*   SpecProxy  ProxyHandler.HandleProxy for one service                   *)
(*   SpecRoute  the /services/{serviceName}/* route and the Director       *)
(*   SpecLimiter the token-bucket RateLimit middleware and its janitor     *)
(*   SpecSweep  the job store used through AddJob / GetJob, and its sweeper *)
(*   SpecOrder  jobs.status messages with one goroutine per message        *)
(*   SpecConsumer  the recover() around a jobs.status handler              *)
(*   SpecWatch  lazily created load balancers and their Consul watchers    *)
(*   SpecAuth   JWTAuth, RequireRole and the job handlers behind them      *)
(*   SpecShutdown  main() from the registration in Consul to its return    *)
(*   SpecWatchLog  the queries of one WatchService goroutine, with errors  *)
(*   SpecRouter the router's middleware stack in front of GET /health      *)
(*   SpecBroker SubmitJob and CancelJob with the broker's answer           *)
(* A specification leaves the variables of the other subsystems at their   *)
(* initial values.                                                         *)
(***************************************************************************)
EXTENDS Integers, Sequences, FiniteSets, TLC

VARIABLES
    \* ---- job store and status consumer
    jobs,        \* JobStore.jobs (sync.Map): job id -> JobInfo
    now,         \* the wall clock read by time.Now()
    handlers,    \* the goroutines spawned by the jobs.status callback
    \* ---- main()
    mainPc,      \* the statement main() is at
    natsClient,  \* main's natsClient: "nil" or "ok"
    jobStoreSet, \* NATSClient.jobStore != nil
    subscribed,  \* a jobs.status subscription exists on the connection
    observed,    \* what GET /api/v1/jobs/{id} last answered, per job id
    \* ---- load balancer
    lbType,            \* LoadBalancer.lbType
    serviceInstances,  \* LoadBalancer.serviceInstances: the snapshot, by instance id
    connectionCount,   \* LoadBalancer.connectionCount: instance id -> in-flight counter
    counter,           \* LoadBalancer.counter: the round-robin cursor
    picks,             \* the indices GetInstance returned since the snapshot was set
    lastOp,            \* the LoadBalancer method that ran last
    callers,           \* the goroutines that call the load balancer (proxied requests)
    \* ---- reverse proxy
    lbExists,          \* ProxyHandler.loadBalancers has an entry for the service
    registry,          \* the healthy instances Consul knows for the service
    consulUp,          \* Consul answers queries
    metrics,           \* gateway_upstream_requests_total of the service, by status
    \* ---- /services/{serviceName}/* route
    route,             \* one request through the route handler and the Director
    \* ---- rate limiter
    limiters,          \* RateLimiter.limiters: key -> the bucket it points to
    lastSeen,          \* RateLimiter.lastSeen: key -> time
    buckets,           \* the rate.Limiter objects made so far: tokens and last
    rlNow,             \* the rate limiter's clock
    rlReqs,            \* the requests inside the RateLimit middleware
    janitor,           \* the janitor goroutine
    admitted,          \* per key: requests admitted, and when its first bucket was made
    \* ---- job store sweeper and the store's callers
    sweep,             \* JobStore.periodicCleanup: where cleanupOldJobs is
    storeOp,           \* the AddJob / GetJob call made last, with what it was given
    \* ---- jobs.status deliveries
    arrived,           \* the messages the subscription callback received, in order
    \* ---- NATSClient.Subscribe
    natsMsgs,          \* per message published on the subject: where its handling is
    \* ---- lazy load-balancer creation and the registry watchers
    consulIndex,       \* Consul's index (X-Consul-Index) of the service's health entries
    lbCreated,         \* load balancers stored in ph.loadBalancers[service] so far; 0: no entry
    lazyReqs,          \* the requests inside getServiceInstance
    watchers,          \* the WatchService goroutines with their watchServiceChanges loops
    lastApplied,       \* the last UpdateInstances call: which load balancer, which index
    stopRequested,     \* the gateway was told to stop (SIGINT / SIGTERM)
    fatal,             \* the runtime ended the process: concurrent map writes
    \* ---- auth gate, role gate and the job handlers behind them
    authReq,           \* one request through JWTAuth / RequireRole / its handler
    authNow,           \* the clock the token validation reads
    jobOwners,         \* JobInfo.UserID of the jobs SubmitJob stored, in order
    \* ---- main(): registration, serving and shutdown
    shut,              \* where main() is, its deferred calls, the HTTP server,
                       \* the NATS connection and the gateway's Consul entry
    \* ---- the queries of one WatchService goroutine
    queryLog,          \* per query: the WaitIndex sent, the index returned or
                       \* the error, and the snapshots sent for it
    \* ---- the router's middleware stack in front of the routes
    rlPaths,           \* the URL path of the request in each RateLimit slot
    \* ---- the job handlers and the broker
    lastReq            \* the last SubmitJob / CancelJob request: its number, the
                       \* handler, the job id and the HTTP status written

jobVars == <<jobs, now, handlers>>
mainVars == <<mainPc, natsClient, jobStoreSet, subscribed, observed>>
lbVars == <<lbType, serviceInstances, connectionCount, counter, picks, lastOp,
            callers, lbExists, registry, consulUp, metrics>>
routeVars == <<route>>
rlVars == <<limiters, lastSeen, buckets, rlNow, rlReqs, janitor, admitted>>
sweepVars == <<sweep, storeOp>>
orderVars == <<arrived>>
consumerVars == <<natsMsgs>>
watchVars == <<consulIndex, lbCreated, lazyReqs, watchers, lastApplied,
               stopRequested, fatal>>
authVars == <<authReq, authNow, jobOwners>>
shutVars == <<shut>>
logVars == <<queryLog>>
pathVars == <<rlPaths>>
brokerVars == <<lastReq>>
extraVars == <<consumerVars, watchVars, authVars, shutVars, logVars, pathVars, brokerVars>>
restVars == <<routeVars, rlVars, sweepVars, orderVars, extraVars>>
vars == <<jobVars, mainVars, lbVars, restVars>>

----------------------------------------------------------------------------
(* Bounds *)

\* The clock runs from 1 to MaxTime; 0 is Go's zero time.Time.
MaxTime == 2
\* started_at / ended_at carried by a jobs.status message: 0 (absent) .. MaxMsgTime
MaxMsgTime == 1
\* Status handler goroutines that can be alive at once.
MaxHandlers == 1
\* Instances in one snapshot of a service.
MaxInstances == 2
\* GetInstance calls: the round-robin cursor stops here.
MaxCalls == 4
\* InstanceBegin calls on one counter without an InstanceEnd.
MaxInFlight == 2
\* The width of an in-flight counter in the model (64 in the code).
CounterBits == 2
\* Goroutines that use one load balancer at once.
MaxCallers == 2
MaxRestLen == 3
\* The rate limiter: clock end, burst size b, tokens per tick r, TTL in ticks,
\* requests in the middleware at once.
MaxRlTime == 4
Burst == 2
Rate == 1
TTL == 2
MaxRlReqs == 2
\* The job-store sweeper: the clock end, the store's maxJobs, and the
\* retention window (24 h in the code) in clock ticks.
MaxSweepTime == 3
maxJobs == 1
Retention == 1
\* jobs.status messages delivered in one run of the consumer.
MaxDeliveries == 2
\* Messages published on a subject NATSClient.Subscribe listens on.
MaxMsgs == 3
\* Consul's index runs from 1 to MaxIndex; requests that reach
\* getServiceInstance at once (each can start one watcher).
MaxIndex == 3
MaxLazyReqs == 2
\* The auth gate's clock runs from 1 to MaxAuthTime (0: no exp claim); jobs
\* submitted through the gate.
MaxAuthTime == 2
MaxAuthJobs == 2

JobIds == {"j1", "j2"}

----------------------------------------------------------------------------
(* internal/storage/job_store.go : JobStatus, JobInfo, JobStore *)

JobStatusQueued == "queued"
JobStatusProcessing == "processing"
JobStatusCompleted == "completed"
JobStatusFailed == "failed"
JobStatusCancelled == "cancelled"

JobStatuses == {JobStatusQueued, JobStatusProcessing, JobStatusCompleted,
                JobStatusFailed, JobStatusCancelled}

\* The statuses UpdateJobStatus stamps CompletedAt for.
TerminalStatuses == {JobStatusCompleted, JobStatusFailed, JobStatusCancelled}

MsgSubmitted == "Job submitted successfully"
MsgCancel == "Job cancellation requested"
MsgWorker == "worker message"

\* sync.Map.Store
MapStore(m, k, v) == [x \in (DOMAIN m) \cup {k} |-> IF x = k THEN v ELSE m[x]]

\* An AddJob that stores the record as it was given.
AddJob_asGiven(store, id, info, t) ==
    IF id = "" THEN store ELSE MapStore(store, id, info)

\* JobStore.AddJob: an empty id is ignored, an empty status becomes queued,
\* a zero SubmittedAt becomes time.Now(); the record is stored under its id.
AddJob(store, id, info, t) ==
    IF id = "" THEN store
    ELSE MapStore(store, id,
           [info EXCEPT !.status = IF @ = "" THEN JobStatusQueued ELSE @,
                        !.submittedAt = IF @ = 0 THEN t ELSE @])

\* JobStore.GetJob: the error it returns.
GetJobErr(store, id) == IF id \in DOMAIN store THEN "nil" ELSE "ErrJobNotFound"

\* JobStore.UpdateJobStatus: the error it returns.
UpdateJobStatusErr(store, id) ==
    IF id \in DOMAIN store THEN "nil" ELSE "ErrJobNotFound"

\* An UpdateJobStatus that creates the record it does not find.
UpdateJobStatus_upsert(store, id, status, message, t) ==
    MapStore(store, id,
      [status |-> status, submittedAt |-> t, startedAt |-> 0,
       completedAt |-> 0, message |-> message])

\* JobStore.UpdateJobStatus: the store it leaves. The status and the message
\* are assigned without looking at the current status.
UpdateJobStatus(store, id, status, message, t) ==
    IF id \notin DOMAIN store THEN store
    ELSE MapStore(store, id,
           [store[id] EXCEPT
              !.status = status,
              !.message = message,
              !.startedAt = IF status = JobStatusProcessing /\ @ = 0 THEN t ELSE @,
              !.completedAt = IF status \in TerminalStatuses THEN t ELSE @])

----------------------------------------------------------------------------
(* time.Now() advances *)

Tick ==
    /\ now < MaxTime
    /\ now' = now + 1
    /\ UNCHANGED <<jobs, handlers>>

----------------------------------------------------------------------------
(* internal/handlers/job_submission.go *)

\* SubmitJob: a fresh uuid, the record is added as queued. The publish that
\* follows does not touch the store.
SubmitJob(j) ==
    /\ j \notin DOMAIN jobs
    /\ jobs' = AddJob(jobs, j,
                 [status |-> JobStatusQueued, submittedAt |-> now,
                  startedAt |-> 0, completedAt |-> 0, message |-> MsgSubmitted],
                 now)
    /\ UNCHANGED <<now, handlers>>

\* CancelJob: 404 when GetJob fails, else UpdateJobStatus(id, cancelled, ...).
CancelJob(j) ==
    /\ IF GetJobErr(jobs, j) # "nil"
       THEN UNCHANGED jobs
       ELSE jobs' = UpdateJobStatus(jobs, j, JobStatusCancelled, MsgCancel, now)
    /\ UNCHANGED <<now, handlers>>

----------------------------------------------------------------------------
(* internal/messaging/nats.go : SubscribeToStatusUpdates' callback *)

\* The status strings a message may carry; "paused" is one the switch
\* does not know.
WireStatuses == JobStatuses \cup {"paused"}
MsgTimes == 0 .. MaxMsgTime
HandlerIds == 1 .. MaxHandlers

NoInfo == [status |-> "", submittedAt |-> 0, startedAt |-> 0,
           completedAt |-> 0, message |-> ""]

IdleHandler == [pc |-> "idle", jobID |-> "", status |-> "", startedAt |-> 0,
                endedAt |-> 0, jobInfo |-> NoInfo]

\* A message arrives on jobs.status: the callback starts a goroutine for it.
StatusMessage(h, j, s, sa, ea) ==
    /\ handlers[h].pc = "idle"
    /\ \A g \in HandlerIds : g < h => handlers[g].pc # "idle"
    /\ handlers' = [handlers EXCEPT ![h] =
                      [pc |-> "update", jobID |-> j, status |-> s,
                       startedAt |-> sa, endedAt |-> ea, jobInfo |-> NoInfo]]
    /\ UNCHANGED <<jobs, now>>

\* Where the goroutine goes after a successful UpdateJobStatus: GetJob is
\* read for the timestamps only, so a message without timestamps is done.
AfterUpdate(u) ==
    IF u.startedAt = 0 /\ u.endedAt = 0 THEN IdleHandler
    ELSE [u EXCEPT !.pc = "get"]

\* The goroutine maps the status string and calls UpdateJobStatus; an unknown
\* status or an error ends it.
HandlerUpdate(h) ==
    LET u == handlers[h] IN
    /\ u.pc = "update"
    /\ IF u.status \notin JobStatuses
       THEN /\ handlers' = [handlers EXCEPT ![h] = IdleHandler]
            /\ UNCHANGED jobs
       ELSE /\ jobs' = UpdateJobStatus(jobs, u.jobID, u.status, MsgWorker, now)
            /\ handlers' = [handlers EXCEPT ![h] =
                 IF UpdateJobStatusErr(jobs, u.jobID) # "nil"
                 THEN IdleHandler ELSE AfterUpdate(u)]
    /\ UNCHANGED now

\* jobInfo, err := c.jobStore.GetJob(update.JobID)
HandlerGet(h) ==
    LET u == handlers[h] IN
    /\ u.pc = "get"
    /\ handlers' = [handlers EXCEPT ![h] =
         IF GetJobErr(jobs, u.jobID) # "nil"
         THEN IdleHandler
         ELSE [u EXCEPT !.pc = IF u.startedAt # 0 THEN "started" ELSE "ended",
                        !.jobInfo = jobs[u.jobID]]]
    /\ UNCHANGED <<jobs, now>>

\* if !update.StartedAt.IsZero() { jobInfo.StartedAt = ...; AddJob(jobInfo) }
HandlerStarted(h) ==
    LET u == handlers[h]
        info == [u.jobInfo EXCEPT !.startedAt = u.startedAt] IN
    /\ u.pc = "started"
    /\ jobs' = AddJob(jobs, u.jobID, info, now)
    /\ handlers' = [handlers EXCEPT ![h] =
         IF u.endedAt # 0 THEN [u EXCEPT !.pc = "ended", !.jobInfo = info]
         ELSE IdleHandler]
    /\ UNCHANGED now

\* if !update.EndedAt.IsZero() { jobInfo.CompletedAt = ...; AddJob(jobInfo) }
HandlerEnded(h) ==
    LET u == handlers[h]
        info == [u.jobInfo EXCEPT !.completedAt = u.endedAt] IN
    /\ u.pc = "ended"
    /\ jobs' = AddJob(jobs, u.jobID, info, now)
    /\ handlers' = [handlers EXCEPT ![h] = IdleHandler]
    /\ UNCHANGED now

----------------------------------------------------------------------------
(* internal/discovery : LoadBalancer *)

RoundRobin == "round_robin"
Random == "random"
LeastConnections == "least_connections"
LoadBalancerTypes == {RoundRobin, Random, LeastConnections}

InstanceIds == {"a", "b", "c"}

\* The in-flight counters are uint64; the model keeps them CounterBits wide.
CounterModulus == 2 ^ CounterBits
\* ^uint64(0)
MaxUint == CounterModulus - 1

\* The snapshots of a service: lists of instances with distinct ids.
Snapshots ==
    {s \in UNION {[1 .. n -> InstanceIds] : n \in 0 .. MaxInstances} :
        \A i, k \in DOMAIN s : i # k => s[i] # s[k]}

InstanceIdSet(instances) == {instances[i] : i \in DOMAIN instances}

\* NewLoadBalancer: a zero counter for every instance.
NewConnectionCount(instances) == [id \in InstanceIdSet(instances) |-> 0]

\* An UpdateInstances that made a fresh zero cell for every id.
UpdateConnectionCount_reset(cc, instances) ==
    [id \in InstanceIdSet(instances) |-> 0]

\* UpdateInstances: the new counter map keeps the cell of an id it already
\* has and makes a zero cell for an id it does not have.
UpdateConnectionCount(cc, instances) ==
    [id \in InstanceIdSet(instances) |-> IF id \in DOMAIN cc THEN cc[id] ELSE 0]

\* An UpdateInstances that starts the cursor again.
UpdateCounter_reset(cnt) == 0

\* UpdateInstances: lb.counter is not written.
UpdateCounter(cnt) == cnt

\* GetInstance: the error it returns.
GetInstanceErr(instances) ==
    IF Len(instances) = 0 THEN "no service instances available" ELSE "nil"

\* A cursor that does not move.
RoundRobinCount_lost(cnt) == cnt

\* count := atomic.AddUint64(&lb.counter, 1)
RoundRobinCount(cnt) == cnt + 1

\* selectedIdx = int(count) % len(lb.serviceInstances)
RoundRobinIdx(count, n) == count % n

\* A comparison that lets a later instance win a tie.
LessThanMin_orEqual(connections, minConnections) == connections <= minConnections

\* if connections < minConnections
LessThanMin(connections, minConnections) == connections < minConnections

\* The least-connections loop from index i on (1-based), with the minimum
\* and the selected index (0-based) found so far.
RECURSIVE LeastConnectionsScan(_, _, _, _, _)
LeastConnectionsScan(instances, cc, i, minConnections, selectedIdx) ==
    IF i > Len(instances) THEN selectedIdx
    ELSE IF instances[i] \in DOMAIN cc
            /\ LessThanMin(cc[instances[i]], minConnections)
         THEN LeastConnectionsScan(instances, cc, i + 1, cc[instances[i]], i - 1)
         ELSE LeastConnectionsScan(instances, cc, i + 1, minConnections, selectedIdx)

\* GetInstance: the index it selects; count is the incremented cursor and
\* r the draw of r.Intn(n).
SelectedIdx(type, instances, cc, count, r) ==
    CASE type = RoundRobin -> RoundRobinIdx(count, Len(instances))
      [] type = Random -> r
      [] type = LeastConnections ->
            LeastConnectionsScan(instances, cc, 1, MaxUint, 0)
      [] OTHER -> RoundRobinIdx(count, Len(instances))

\* The cursor moves under round robin (and the default branch) only.
CounterAfter(type, cnt) ==
    IF type \in {Random, LeastConnections} THEN cnt ELSE RoundRobinCount(cnt)

\* r.Intn(n)
RandomDraws(type, n) == IF type = Random THEN 0 .. (n - 1) ELSE {0}

\* An InstanceBegin that makes a counter for an id that has none.
InstanceBegin_create(cc, id) ==
    [x \in DOMAIN cc \cup {id} |-> IF x \in DOMAIN cc /\ x # id THEN cc[x]
                                   ELSE IF x \in DOMAIN cc THEN (cc[x] + 1) % CounterModulus
                                   ELSE 1]

\* InstanceBegin: atomic.AddUint64(counter, 1) if the id has a counter.
InstanceBegin(cc, id) ==
    IF id \in DOMAIN cc
    THEN [cc EXCEPT ![id] = (@ + 1) % CounterModulus]
    ELSE cc

\* InstanceEnd's atomic.AddUint64(counter, ^uint64(0)).
InstanceEndAdd(cc, id) ==
    IF id \in DOMAIN cc
    THEN [cc EXCEPT ![id] = (@ + MaxUint) % CounterModulus]
    ELSE cc

CallerIds == 1 .. MaxCallers

\* A caller: where it is, the instance it holds, the value InstanceEnd read,
\* the error of getServiceInstance, how its forward ended, and how many times
\* it has called InstanceBegin, InstanceEnd and proxy.ServeHTTP.
IdleCaller == [pc |-> "idle", inst |-> "", currentVal |-> 0, err |-> "nil",
               outcome |-> "", resp |-> "", gets |-> 0,
               begins |-> 0, ends |-> 0, forwards |-> 0]

\* A caller inside InstanceEnd holds instanceLock.RLock.
ReadLocked == \E c \in CallerIds : callers[c].pc = "end_loaded"

\* metrics.UpstreamRequestsTotal before any request.
NoMetrics == [success |-> 0, error |-> 0]

proxyOnly == <<lbExists, registry, consulUp, metrics>>

\* lb.GetInstance()
LBGetInstance(c) ==
    /\ callers[c].pc = "idle"
    /\ counter < MaxCalls
    /\ Len(picks) < MaxCalls
    /\ lastOp' = "GetInstance"
    /\ IF GetInstanceErr(serviceInstances) # "nil"
       THEN UNCHANGED <<counter, picks>>
       ELSE \E r \in RandomDraws(lbType, Len(serviceInstances)) :
              /\ counter' = CounterAfter(lbType, counter)
              /\ picks' = Append(picks,
                    SelectedIdx(lbType, serviceInstances, connectionCount,
                                counter', r))
    /\ UNCHANGED <<lbType, serviceInstances, connectionCount, callers, proxyOnly>>

\* lb.UpdateInstances(instances): under instanceLock.Lock
LBUpdateInstances(instances) ==
    /\ ~ReadLocked
    /\ serviceInstances' = instances
    /\ connectionCount' = UpdateConnectionCount(connectionCount, instances)
    /\ counter' = UpdateCounter(counter)
    /\ picks' = <<>>
    /\ lastOp' = "UpdateInstances"
    /\ UNCHANGED <<lbType, callers, proxyOnly>>

\* lb.InstanceBegin(id)
LBInstanceBegin(c, id) ==
    /\ callers[c].pc = "idle"
    /\ id \in DOMAIN connectionCount => connectionCount[id] < MaxInFlight
    /\ connectionCount' = InstanceBegin(connectionCount, id)
    /\ lastOp' = "InstanceBegin"
    /\ UNCHANGED <<lbType, serviceInstances, counter, picks, callers, proxyOnly>>

\* lb.InstanceEnd(id) up to currentVal := atomic.LoadUint64(counter); the
\* call returns here when the id has no counter or the value read is 0.
LBInstanceEndLoad(c, id) ==
    /\ callers[c].pc = "idle"
    /\ lastOp' = "InstanceEnd"
    /\ callers' = [callers EXCEPT ![c] =
         IF id \in DOMAIN connectionCount /\ connectionCount[id] > 0
         THEN [@ EXCEPT !.pc = "end_loaded", !.inst = id,
                        !.currentVal = connectionCount[id]]
         ELSE @]
    /\ UNCHANGED <<lbType, serviceInstances, connectionCount, counter, picks, proxyOnly>>

\* lb.InstanceEnd(id): if currentVal > 0 { atomic.AddUint64(counter, ^uint64(0)) }
LBInstanceEndAdd(c) ==
    /\ callers[c].pc = "end_loaded"
    /\ connectionCount' = InstanceEndAdd(connectionCount, callers[c].inst)
    /\ callers' = [callers EXCEPT ![c] = IdleCaller]
    /\ lastOp' = "InstanceEnd"
    /\ UNCHANGED <<lbType, serviceInstances, counter, picks, proxyOnly>>

\* The load-balancer and proxy variables of a gateway without proxy routes.
InitNoProxy ==
    /\ lbType = RoundRobin
    /\ serviceInstances = <<>>
    /\ connectionCount = <<>>
    /\ counter = 0
    /\ picks = <<>>
    /\ lastOp = ""
    /\ callers = [c \in CallerIds |-> IdleCaller]
    /\ lbExists = FALSE
    /\ registry = <<>>
    /\ consulUp = TRUE
    /\ metrics = NoMetrics


----------------------------------------------------------------------------
(* SpecJobs *)

\* No request is in the /services route.
IdleRoute == [pc |-> "idle", rest |-> <<>>, query |-> <<>>, path |-> <<>>,
              inst |-> "", targetHost |-> <<>>, targetPath |-> <<>>,
              outHost |-> <<>>, outPath |-> <<>>, outQuery |-> <<>>]

\* The client IPs that send requests.
RlKeys == {"ip1"}
RlReqIds == 1 .. MaxRlReqs

\* A request slot of the RateLimit middleware: the key (client IP), what
\* GetLimiter's first lookup found, the bucket it was handed, the response
\* written and the calls of next.ServeHTTP.
IdleRlReq == [pc |-> "idle", key |-> "", exists |-> FALSE, limiter |-> 0,
              resp |-> "", retryAfter |-> "", nextCalls |-> 0]

\* The janitor between two ticks of its ticker.
IdleJanitor == [pc |-> "wait", nextTick |-> TTL, now |-> 0,
                keysToDelete |-> {}, lastSweep |-> 0]

\* NewRateLimiter(r, b, ttl): empty maps, the janitor started.
InitRateLimiter ==
    /\ limiters = <<>>
    /\ lastSeen = <<>>
    /\ buckets = <<>>
    /\ rlNow = 0
    /\ rlReqs = [q \in RlReqIds |-> IdleRlReq]
    /\ janitor = IdleJanitor
    /\ admitted = <<>>

\* The job-store sweeper between two ticks of its ticker; evicted is what
\* the last sweep's second pass deleted.
IdleSweep == [pc |-> "wait", now |-> 0, jobsToDelete |-> {}, quiet |-> TRUE,
              evicted |-> {}]

\* No AddJob or GetJob call was made yet.
NoStoreOp == [op |-> "none"]

\* What conn.Subscribe knows of a message that was not published yet:
\* how often the handler ran for it, how often it panicked, how often the
\* panic was recovered and logged, how often it was acknowledged negatively.
UnsentMsg == [pc |-> "unsent", runs |-> 0, panics |-> 0, recovered |-> 0, naks |-> 0]

MsgIds == 1 .. MaxMsgs

LazyReqIds == 1 .. MaxLazyReqs
WatcherIds == 1 .. MaxLazyReqs

\* A watcher that was not started: the WatchService goroutine (pc, lastIndex,
\* the index of the snapshot it is sending) and the watchServiceChanges loop
\* (rpc, the index of the snapshot it received), and whether the goroutine
\* closed instancesChan.
NoWatcher == [pc |-> "none", lastIndex |-> 0, sending |-> 0,
              rpc |-> "none", received |-> 0, closed |-> FALSE]

\* No UpdateInstances call was made.
NoneApplied == [lb |-> 0, index |-> 0]

\* NewProxyHandler: an empty loadBalancers map, no watcher.
InitWatch ==
    /\ consulIndex = 1
    /\ lbCreated = 0
    /\ lazyReqs = [r \in LazyReqIds |-> "idle"]
    /\ watchers = [w \in WatcherIds |-> NoWatcher]
    /\ lastApplied = NoneApplied
    /\ stopRequested = FALSE
    /\ fatal = FALSE

\* A token string that is not a JWT, and the header that carries no token.
NoToken == [wellFormed |-> FALSE, alg |-> "", sig |-> "", exp |-> 0,
            userID |-> "", role |-> ""]
NoHeader == [nparts |-> 0, scheme |-> "", token |-> NoToken]

\* No request is in the chain: no response written, an empty context, no
\* call of a next handler.
IdleAuthReq == [pc |-> "idle", route |-> "", header |-> NoHeader, required |-> "",
                ctx |-> <<>>, status |-> 0, body |-> "", gateNext |-> 0,
                roleNext |-> 0, gateTime |-> 0, listed |-> {}]

InitAuth ==
    /\ authReq = IdleAuthReq
    /\ authNow = 1
    /\ jobOwners = <<>>

\* main() before it talks to Consul and NATS: nothing deferred, no listener,
\* no connection, no entry in Consul.
StartingMain == [pc |-> "consul", defers |-> <<>>, stack |-> <<>>,
                 listening |-> FALSE, inflight |-> 0, err |-> "",
                 broker |-> "none", registered |-> FALSE, left |-> 0]

\* The subsystems below start idle.
InitExtra ==
    /\ natsMsgs = [m \in MsgIds |-> UnsentMsg]
    /\ InitWatch
    /\ InitAuth
    /\ shut = StartingMain
    /\ queryLog = <<>>
    /\ rlPaths = [q \in RlReqIds |-> ""]
    /\ lastReq = [n |-> 0, op |-> "", id |-> "", code |-> 0]

\* NewJobStore started the sweeper; nothing has called the store or been
\* delivered on jobs.status.
InitStoreCallers ==
    /\ sweep = IdleSweep
    /\ storeOp = NoStoreOp
    /\ arrived = <<>>

\* The parts of the gateway a specification does not exercise.
InitRest ==
    /\ route = IdleRoute
    /\ InitRateLimiter
    /\ InitStoreCallers
    /\ InitExtra

InitJobStore ==
    /\ jobs = <<>>
    /\ now = 1
    /\ handlers = [h \in HandlerIds |-> IdleHandler]

InitJobs ==
    /\ InitJobStore
    /\ InitNoProxy
    /\ mainPc = "serving"
    /\ natsClient = "ok"
    /\ jobStoreSet = TRUE
    /\ subscribed = TRUE
    /\ observed = [j \in JobIds |-> ""]
    /\ InitRest

NextJobs ==
    \/ Tick /\ UNCHANGED <<mainVars, lbVars, restVars>>
    \/ \E j \in JobIds : SubmitJob(j) /\ UNCHANGED <<mainVars, lbVars, restVars>>
    \/ \E j \in JobIds : CancelJob(j) /\ UNCHANGED <<mainVars, lbVars, restVars>>
    \/ \E h \in HandlerIds, j \in JobIds, s \in WireStatuses,
          sa \in MsgTimes, ea \in MsgTimes :
          StatusMessage(h, j, s, sa, ea) /\ UNCHANGED <<mainVars, lbVars, restVars>>
    \/ \E h \in HandlerIds : HandlerUpdate(h) /\ UNCHANGED <<mainVars, lbVars, restVars>>
    \/ \E h \in HandlerIds : HandlerGet(h) /\ UNCHANGED <<mainVars, lbVars, restVars>>
    \/ \E h \in HandlerIds : HandlerStarted(h) /\ UNCHANGED <<mainVars, lbVars, restVars>>
    \/ \E h \in HandlerIds : HandlerEnded(h) /\ UNCHANGED <<mainVars, lbVars, restVars>>

SpecJobs == InitJobs /\ [][NextJobs]_vars

----------------------------------------------------------------------------
(* cmd/main.go : main(), the NATS and job-store wiring *)

\* NATSClient.SubscribeToStatusUpdates: the error it returns. NewNATSClient
\* leaves initialized = TRUE on the client it returns.
SubscribeToStatusUpdatesErr(storeSet) ==
    IF ~storeSet THEN "job store not set" ELSE "nil"

\* if config.NATSAddress != "" { natsClient, err = NewNATSClient(...) }
\* An empty address or a failed connection leaves the gateway without client.
MainNewNATSClient ==
    /\ mainPc = "new_nats_client"
    /\ \E ok \in BOOLEAN :
         /\ natsClient' = IF ok THEN "ok" ELSE "nil"
         /\ mainPc' = IF ok THEN "ensure_stream" ELSE "new_job_store"
    /\ UNCHANGED <<jobStoreSet, subscribed, observed, jobs, now, handlers>>

\* err = natsClient.EnsureStream(...): a failure is logged, main goes on.
MainEnsureStream ==
    /\ mainPc = "ensure_stream"
    /\ mainPc' = "subscribe"
    /\ UNCHANGED <<natsClient, jobStoreSet, subscribed, observed, jobs, now, handlers>>

\* err = natsClient.SubscribeToStatusUpdates(): a failure is logged.
MainSubscribe ==
    /\ mainPc = "subscribe"
    /\ subscribed' = (SubscribeToStatusUpdatesErr(jobStoreSet) = "nil")
    /\ mainPc' = "new_job_store"
    /\ UNCHANGED <<natsClient, jobStoreSet, observed, jobs, now, handlers>>

\* jobStore := storage.NewJobStore(10000)
MainNewJobStore ==
    /\ mainPc = "new_job_store"
    /\ jobs' = <<>>
    /\ mainPc' = "set_job_store"
    /\ UNCHANGED <<natsClient, jobStoreSet, subscribed, observed, now, handlers>>

\* if natsClient != nil { natsClient.SetJobStore(jobStore) }
MainSetJobStore ==
    /\ mainPc = "set_job_store"
    /\ jobStoreSet' = (natsClient # "nil")
    /\ mainPc' = "serving"
    /\ UNCHANGED <<natsClient, subscribed, observed, jobs, now, handlers>>

\* GetJobStatus: 404 when the store has no such job, else its status.
GetJobStatus(j) ==
    /\ observed' = [observed EXCEPT ![j] =
         IF GetJobErr(jobs, j) # "nil" THEN "404" ELSE jobs[j].status]
    /\ UNCHANGED <<mainPc, natsClient, jobStoreSet, subscribed, jobs, now, handlers>>

\* A worker publishes on jobs.status: the callback runs if main subscribed,
\* and without a subscription the broker has nobody to deliver to.
MainStatusMessage(h, j, s, sa, ea) ==
    /\ IF subscribed
       THEN StatusMessage(h, j, s, sa, ea)
       ELSE UNCHANGED <<jobs, now, handlers>>
    /\ UNCHANGED mainVars

InitMain ==
    /\ InitJobStore
    /\ InitNoProxy
    /\ mainPc = "new_nats_client"
    /\ natsClient = "nil"
    /\ jobStoreSet = FALSE
    /\ subscribed = FALSE
    /\ observed = [j \in JobIds |-> ""]
    /\ InitRest

Serving == mainPc = "serving"

NextMain ==
    \/ MainNewNATSClient /\ UNCHANGED <<lbVars, restVars>>
    \/ MainEnsureStream /\ UNCHANGED <<lbVars, restVars>>
    \/ MainSubscribe /\ UNCHANGED <<lbVars, restVars>>
    \/ MainNewJobStore /\ UNCHANGED <<lbVars, restVars>>
    \/ MainSetJobStore /\ UNCHANGED <<lbVars, restVars>>
    \/ Serving /\ Tick /\ UNCHANGED <<mainVars, lbVars, restVars>>
    \/ \E j \in JobIds : Serving /\ SubmitJob(j) /\ UNCHANGED <<mainVars, lbVars, restVars>>
    \/ \E j \in JobIds : Serving /\ CancelJob(j) /\ UNCHANGED <<mainVars, lbVars, restVars>>
    \/ \E j \in JobIds : Serving /\ GetJobStatus(j) /\ UNCHANGED <<lbVars, restVars>>
    \/ \E h \in HandlerIds, j \in JobIds, s \in WireStatuses,
          sa \in MsgTimes, ea \in MsgTimes :
          Serving /\ MainStatusMessage(h, j, s, sa, ea) /\ UNCHANGED <<lbVars, restVars>>

SpecMain == InitMain /\ [][NextMain]_vars

----------------------------------------------------------------------------
(* internal/proxy/proxy.go : ProxyHandler, for one service *)

\* The instances of the service that Consul may report as passing.
RegisteredIds == {"a", "b"}
RegistrySnapshots == {s \in Snapshots : InstanceIdSet(s) \subseteq RegisteredIds}

\* ServiceRegistry.DiscoverService: the error it returns.
DiscoverServiceErr == IF consulUp THEN "nil" ELSE "failed to discover service"

\* How proxy.ServeHTTP ends: the upstream answered, the transport failed
\* (ErrorHandler writes 502), or ServeHTTP panicked.
ForwardOutcomes == {"ok", "upstream_failed", "panic"}

\* A HandleProxy whose InstanceEnd is a plain call after ServeHTTP: a panic
\* skips it.
AfterForward_noDefer(outcome) == IF outcome = "panic" THEN "aborted" ELSE outcome

\* Where HandleProxy is once ServeHTTP is over; the deferred InstanceEnd
\* runs from there on return and on panic alike.
AfterForward(outcome) == outcome

NewRequest == [IdleCaller EXCEPT !.pc = "start"]

\* getServiceInstance before it asks the load balancer: the error of the
\* lazy creation (exists: the service has a load balancer already).
GetServiceInstanceErr(exists, discoverErr, instances) ==
    IF exists THEN "nil"
    ELSE IF discoverErr # "nil" THEN "failed to discover service"
    ELSE IF Len(instances) = 0 THEN "no instances available for service"
    ELSE "nil"

\* A HandleProxy that goes on whatever getServiceInstance returned.
AfterGetServiceInstance_unchecked(err) == "acquired"

\* HandleProxy after getServiceInstance: on an error it answers
\* 503 "Service unavailable" and returns.
AfterGetServiceInstance(err) == IF err # "nil" THEN "resp503" ELSE "acquired"

\* http.Error(w, "Service unavailable", http.StatusServiceUnavailable)
ErrorResponse(err) == IF err # "nil" THEN "503 Service unavailable" ELSE ""

\* instance, err := ph.getServiceInstance(serviceName): the load balancer is
\* made on first use from a non-empty discovery, then GetInstance is asked.
ProxyGetServiceInstance(c) ==
    /\ callers[c].pc = "start"
    /\ LET createErr == GetServiceInstanceErr(lbExists, DiscoverServiceErr, registry) IN
       IF createErr # "nil"
       THEN /\ callers' = [callers EXCEPT
                             ![c].pc = AfterGetServiceInstance(createErr),
                             ![c].err = createErr,
                             ![c].resp = ErrorResponse(createErr)]
            /\ UNCHANGED <<lbType, serviceInstances, connectionCount, counter,
                           lbExists>>
       ELSE LET type == IF lbExists THEN lbType ELSE RoundRobin
                instances == IF lbExists THEN serviceInstances ELSE registry
                cc == IF lbExists THEN connectionCount
                      ELSE NewConnectionCount(registry)
                cnt == IF lbExists THEN counter ELSE 0
            IN /\ lbExists' = TRUE
               /\ lbType' = type
               /\ serviceInstances' = instances
               /\ connectionCount' = cc
               /\ IF GetInstanceErr(instances) # "nil"
                  THEN /\ callers' = [callers EXCEPT
                             ![c].pc = AfterGetServiceInstance(GetInstanceErr(instances)),
                             ![c].err = "load balancer failed to get instance",
                             ![c].resp = ErrorResponse(GetInstanceErr(instances)),
                             ![c].gets = @ + 1]
                       /\ counter' = cnt
                  ELSE \E r \in RandomDraws(type, Len(instances)) :
                         LET idx == SelectedIdx(type, instances, cc,
                                                CounterAfter(type, cnt), r)
                         IN /\ counter' = CounterAfter(type, cnt)
                            /\ callers' = [callers EXCEPT
                                             ![c].pc = AfterGetServiceInstance("nil"),
                                             ![c].inst = instances[idx + 1],
                                             ![c].gets = @ + 1]
    /\ UNCHANGED <<picks, lastOp, registry, consulUp, metrics>>

\* ph.loadBalancers[serviceName].InstanceBegin(instance.ID)
ProxyInstanceBegin(c) ==
    /\ callers[c].pc = "acquired"
    /\ connectionCount' = InstanceBegin(connectionCount, callers[c].inst)
    /\ callers' = [callers EXCEPT ![c].pc = "forwarding", ![c].begins = @ + 1]
    /\ UNCHANGED <<lbType, serviceInstances, counter, picks, lastOp, proxyOnly>>

\* An ErrorHandler that writes its 502 without counting the error.
ErrorHandlerInc_none(outcome) == 0

\* proxy.ErrorHandler: what a forward adds to the "error" counter.
ErrorHandlerInc(outcome) == IF outcome = "upstream_failed" THEN 1 ELSE 0

\* What the client is answered: the upstream's response, the ErrorHandler's
\* 502 "Bad Gateway", or nothing when ServeHTTP panics.
ForwardResponse(outcome) ==
    CASE outcome = "ok" -> "upstream response"
      [] outcome = "upstream_failed" -> "502 Bad Gateway"
      [] OTHER -> ""

\* What HandleProxy adds to the "success" counter once ServeHTTP has
\* returned; a panic unwinds past it.
SuccessInc(outcome) == IF outcome = "panic" THEN 0 ELSE 1

\* proxy.ServeHTTP(w, r) and the metrics recorded after it.
ProxyForward(c, outcome) ==
    /\ callers[c].pc = "forwarding"
    /\ callers' = [callers EXCEPT ![c].pc = AfterForward(outcome),
                                  ![c].outcome = outcome,
                                  ![c].resp = ForwardResponse(outcome),
                                  ![c].forwards = @ + 1]
    /\ metrics' = [success |-> metrics.success + SuccessInc(outcome),
                   error |-> metrics.error + ErrorHandlerInc(outcome)]
    /\ UNCHANGED <<lbType, serviceInstances, connectionCount, counter, picks,
                   lastOp, lbExists, registry, consulUp>>

\* The deferred InstanceEnd up to its atomic.LoadUint64.
ProxyInstanceEndLoad(c) ==
    LET id == callers[c].inst IN
    /\ callers[c].pc \in ForwardOutcomes
    /\ callers' = [callers EXCEPT ![c] =
         IF id \in DOMAIN connectionCount /\ connectionCount[id] > 0
         THEN [@ EXCEPT !.pc = "end_loaded", !.ends = @ + 1,
                        !.currentVal = connectionCount[id]]
         ELSE [@ EXCEPT !.pc = "released", !.ends = @ + 1]]
    /\ UNCHANGED <<lbType, serviceInstances, connectionCount, counter, picks,
                   lastOp, proxyOnly>>

\* The deferred InstanceEnd's decrement.
ProxyInstanceEndAdd(c) ==
    /\ callers[c].pc = "end_loaded"
    /\ connectionCount' = InstanceEndAdd(connectionCount, callers[c].inst)
    /\ callers' = [callers EXCEPT ![c].pc = "released", ![c].currentVal = 0]
    /\ UNCHANGED <<lbType, serviceInstances, counter, picks, lastOp, proxyOnly>>

\* watchServiceChanges: a snapshot from the registry watch goes to
\* UpdateInstances.
WatchServiceChanges ==
    /\ lbExists
    /\ DiscoverServiceErr = "nil"
    /\ ~ReadLocked
    /\ serviceInstances' = registry
    /\ connectionCount' = UpdateConnectionCount(connectionCount, registry)
    /\ UNCHANGED <<lbType, counter, picks, lastOp, callers, proxyOnly>>

\* Instances register, deregister or change health in Consul.
RegistryChange(s) ==
    /\ s \in RegistrySnapshots
    /\ s # registry
    /\ registry' = s
    /\ UNCHANGED <<lbType, serviceInstances, connectionCount, counter, picks,
                   lastOp, callers, lbExists, consulUp, metrics>>

\* Consul becomes unreachable, or reachable again.
ConsulChange ==
    /\ consulUp' = ~consulUp
    /\ UNCHANGED <<lbType, serviceInstances, connectionCount, counter, picks,
                   lastOp, callers, lbExists, registry, metrics>>

----------------------------------------------------------------------------
(* SpecLB *)

\* NewLoadBalancer(lbType, instances)
InitLB ==
    /\ lbType \in LoadBalancerTypes
    /\ serviceInstances \in Snapshots
    /\ connectionCount = NewConnectionCount(serviceInstances)
    /\ counter = 0
    /\ picks = <<>>
    /\ lastOp = "NewLoadBalancer"
    /\ callers = [c \in CallerIds |-> IdleCaller]
    /\ lbExists = TRUE
    /\ registry = <<>>
    /\ consulUp = TRUE
    /\ metrics = NoMetrics
    /\ InitJobStore
    /\ mainPc = "serving"
    /\ natsClient = "nil"
    /\ jobStoreSet = FALSE
    /\ subscribed = FALSE
    /\ observed = [j \in JobIds |-> ""]
    /\ InitRest

NextLB ==
    \/ \E c \in CallerIds : LBGetInstance(c) /\ UNCHANGED <<jobVars, mainVars, restVars>>
    \/ \E s \in Snapshots : LBUpdateInstances(s) /\ UNCHANGED <<jobVars, mainVars, restVars>>
    \/ \E c \in CallerIds, id \in InstanceIds :
          LBInstanceBegin(c, id) /\ UNCHANGED <<jobVars, mainVars, restVars>>
    \/ \E c \in CallerIds, id \in InstanceIds :
          LBInstanceEndLoad(c, id) /\ UNCHANGED <<jobVars, mainVars, restVars>>
    \/ \E c \in CallerIds : LBInstanceEndAdd(c) /\ UNCHANGED <<jobVars, mainVars, restVars>>

SpecLB == InitLB /\ [][NextLB]_vars

----------------------------------------------------------------------------
(* SpecProxy *)

\* NewProxyHandler(serviceRegistry): no load balancer yet.
InitProxy ==
    /\ lbType = RoundRobin
    /\ serviceInstances = <<>>
    /\ connectionCount = <<>>
    /\ counter = 0
    /\ picks = <<>>
    /\ lastOp = ""
    /\ callers = [c \in CallerIds |-> NewRequest]
    /\ lbExists = FALSE
    /\ registry \in RegistrySnapshots
    /\ consulUp = TRUE
    /\ metrics = NoMetrics
    /\ InitJobStore
    /\ mainPc = "serving"
    /\ natsClient = "nil"
    /\ jobStoreSet = FALSE
    /\ subscribed = FALSE
    /\ observed = [j \in JobIds |-> ""]
    /\ InitRest

NextProxy ==
    \/ \E c \in CallerIds :
          ProxyGetServiceInstance(c) /\ UNCHANGED <<jobVars, mainVars, restVars>>
    \/ \E c \in CallerIds : ProxyInstanceBegin(c) /\ UNCHANGED <<jobVars, mainVars, restVars>>
    \/ \E c \in CallerIds, o \in ForwardOutcomes :
          ProxyForward(c, o) /\ UNCHANGED <<jobVars, mainVars, restVars>>
    \/ \E c \in CallerIds : ProxyInstanceEndLoad(c) /\ UNCHANGED <<jobVars, mainVars, restVars>>
    \/ \E c \in CallerIds : ProxyInstanceEndAdd(c) /\ UNCHANGED <<jobVars, mainVars, restVars>>
    \/ WatchServiceChanges /\ UNCHANGED <<jobVars, mainVars, restVars>>
    \/ \E s \in RegistrySnapshots : RegistryChange(s) /\ UNCHANGED <<jobVars, mainVars, restVars>>
    \/ ConsulChange /\ UNCHANGED <<jobVars, mainVars, restVars>>

SpecProxy == InitProxy /\ [][NextProxy]_vars

\* A request's goroutine keeps running: the upstream exchange ends (by an
\* answer, a transport error or the request's 60 s deadline) and the read
\* lock of InstanceEnd is never held for long.
RequestFairness ==
    \A c \in CallerIds :
        /\ WF_vars(ProxyInstanceBegin(c) /\ UNCHANGED <<jobVars, mainVars, restVars>>)
        /\ WF_vars(\E o \in ForwardOutcomes :
                      ProxyForward(c, o) /\ UNCHANGED <<jobVars, mainVars, restVars>>)
        /\ WF_vars(ProxyInstanceEndLoad(c) /\ UNCHANGED <<jobVars, mainVars, restVars>>)
        /\ WF_vars(ProxyInstanceEndAdd(c) /\ UNCHANGED <<jobVars, mainVars, restVars>>)

FairSpecProxy == InitProxy /\ [][NextProxy]_vars /\ RequestFairness

----------------------------------------------------------------------------
(* cmd/main.go : the /services/{serviceName}/* route, and the Director *)

\* Strings are sequences of these characters.
PathChars == {"/", "x", "y"}

\* The wildcard part of a request path: what follows /services/{serviceName}/.
Rests == UNION {[1 .. n -> PathChars] : n \in 0 .. MaxRestLen}

\* Raw query strings, as sequences of tokens.
RawQueries == {<<>>, <<"q=1">>, <<"a=1", "&", "b=2">>}

\* ServiceInstance.Address and .Port of the registered instances.
InstanceAddr ==
    [id \in RegisteredIds |->
        IF id = "a" THEN [address |-> "10.0.0.1", port |-> "8080"]
        ELSE [address |-> "10.0.0.2", port |-> "9090"]]

\* fmt.Sprintf("%s:%d", instance.Address, instance.Port)
TargetHost(id) == <<InstanceAddr[id].address, ":", InstanceAddr[id].port>>

\* r.URL.Path = "/" + chi.URLParam(r, "*")
StripPrefix(rest) == <<"/">> \o rest

\* httputil's singleJoiningSlash(a, b)
SingleJoiningSlash(a, b) ==
    LET aslash == Len(a) > 0 /\ a[Len(a)] = "/"
        bslash == Len(b) > 0 /\ b[1] = "/"
    IN CASE aslash /\ bslash -> a \o Tail(b)
         [] ~aslash /\ ~bslash -> a \o <<"/">> \o b
         [] OTHER -> a \o b

\* The Director's query rule, with targetQuery the target URL's RawQuery.
JoinQuery(targetQuery, rawQuery) ==
    IF targetQuery = <<>> \/ rawQuery = <<>>
    THEN targetQuery \o rawQuery
    ELSE targetQuery \o <<"&">> \o rawQuery

\* A client sends /services/svc/{rest}?{query}.
RouteRequest(rest, query) ==
    /\ route.pc \in {"idle", "sent"}
    /\ route' = [IdleRoute EXCEPT !.pc = "received", !.rest = rest, !.query = query]

\* The route handler rewrites r.URL.Path and calls HandleProxy.
RouteHandler ==
    /\ route.pc = "received"
    /\ route' = [route EXCEPT !.pc = "handler", !.path = StripPrefix(route.rest)]

\* HandleProxy builds targetURL for the selected instance: Host from the
\* instance, Path from r.URL.Path, no RawQuery.
RouteTarget(id) ==
    /\ route.pc = "handler"
    /\ route' = [route EXCEPT !.pc = "director", !.inst = id,
                              !.targetHost = TargetHost(id),
                              !.targetPath = route.path]

\* The Director of NewSingleHostReverseProxy(&targetURL) rewrites the
\* outgoing request: target host, target path joined with the request path,
\* target query joined with the request query.
RouteDirector ==
    /\ route.pc = "director"
    /\ route' = [route EXCEPT !.pc = "sent",
                              !.outHost = route.targetHost,
                              !.outPath = SingleJoiningSlash(route.targetPath, route.path),
                              !.outQuery = JoinQuery(<<>>, route.query)]

InitRoute ==
    /\ route = IdleRoute
    /\ InitRateLimiter
    /\ InitStoreCallers
    /\ InitExtra
    /\ InitJobStore
    /\ InitNoProxy
    /\ mainPc = "serving"
    /\ natsClient = "nil"
    /\ jobStoreSet = FALSE
    /\ subscribed = FALSE
    /\ observed = [j \in JobIds |-> ""]

routeFrame == <<jobVars, mainVars, lbVars, rlVars, sweepVars, orderVars, extraVars>>

NextRoute ==
    \/ \E rest \in Rests, query \in RawQueries :
          RouteRequest(rest, query) /\ UNCHANGED routeFrame
    \/ RouteHandler /\ UNCHANGED routeFrame
    \/ \E id \in RegisteredIds : RouteTarget(id) /\ UNCHANGED routeFrame
    \/ RouteDirector /\ UNCHANGED routeFrame

SpecRoute == InitRoute /\ [][NextRoute]_vars

----------------------------------------------------------------------------
(* internal/middleware/ratelimit.go : RateLimiter, RateLimit *)

\* rate.NewLimiter(rl.r, rl.b): a full bucket.
NewLimiter(t) == [tokens |-> Burst, last |-> t]

\* The tokens of bucket lim at time t: refilled at Rate per tick up to Burst.
TokensAt(lim, t) ==
    LET elapsed == IF t > lim.last THEN t - lim.last ELSE 0
        filled == lim.tokens + Rate * elapsed
    IN IF filled > Burst THEN Burst ELSE filled

\* limiter.Allow(): is there a token at time t.
AllowOk(lim, t) == TokensAt(lim, t) >= 1

\* The bucket after an Allow at time t: an admitted request takes one token.
AfterAllow(lim, t) ==
    IF AllowOk(lim, t)
    THEN [tokens |-> TokensAt(lim, t) - 1, last |-> IF t > lim.last THEN t ELSE lim.last]
    ELSE lim

\* A janitor test that spares every key.
Expired_never(t, seen) == FALSE

\* if now.Sub(lastSeen) > rl.ttl
Expired(t, seen) == t - seen > TTL

\* The map m without the keys in ks.
MapDelete(m, ks) == [k \in (DOMAIN m) \ ks |-> m[k]]

\* time passes
RlTick ==
    /\ rlNow < MaxRlTime
    /\ rlNow' = rlNow + 1
    /\ UNCHANGED <<limiters, lastSeen, buckets, rlReqs, janitor, admitted>>

\* A request of client key enters the middleware; GetLimiter looks the key
\* up under the read lock.
RlGetLimiterRead(q, key) ==
    /\ rlReqs[q].pc \in {"idle", "next", "rejected"}
    /\ rlReqs' = [rlReqs EXCEPT ![q] =
          [IdleRlReq EXCEPT !.pc = "get", !.key = key,
                            !.exists = key \in DOMAIN limiters,
                            !.limiter = IF key \in DOMAIN limiters
                                        THEN limiters[key] ELSE 0]]
    /\ UNCHANGED <<limiters, lastSeen, buckets, rlNow, janitor, admitted>>

\* A GetLimiter that does not look again under the write lock.
SecondLookup_skipped(lims, key) == FALSE

\* limiter, exists = rl.limiters[key] under the write lock.
SecondLookup(lims, key) == key \in DOMAIN lims

\* GetLimiter under the write lock: make the bucket if the first lookup and
\* the second both miss, else - when the first lookup hit - stamp lastSeen.
RlGetLimiterWrite(q) ==
    LET r == rlReqs[q]
        key == r.key
    IN
    /\ r.pc = "get"
    /\ IF ~r.exists
       THEN IF ~SecondLookup(limiters, key)
            THEN /\ buckets' = Append(buckets, NewLimiter(rlNow))
                 /\ limiters' = MapStore(limiters, key, Len(buckets) + 1)
                 /\ lastSeen' = MapStore(lastSeen, key, rlNow)
                 /\ admitted' = IF key \in DOMAIN admitted THEN admitted
                                ELSE MapStore(admitted, key, [n |-> 0, t0 |-> rlNow])
                 /\ rlReqs' = [rlReqs EXCEPT ![q].pc = "allow",
                                             ![q].limiter = Len(buckets) + 1]
            ELSE /\ rlReqs' = [rlReqs EXCEPT ![q].pc = "allow",
                                             ![q].limiter = limiters[key]]
                 /\ UNCHANGED <<buckets, limiters, lastSeen, admitted>>
       ELSE /\ lastSeen' = MapStore(lastSeen, key, rlNow)
            /\ rlReqs' = [rlReqs EXCEPT ![q].pc = "allow"]
            /\ UNCHANGED <<buckets, limiters, admitted>>
    /\ UNCHANGED <<rlNow, janitor>>

\* A middleware that forgets to return after writing the 429.
NextCalls_noReturn(ok) == 1

\* The calls of next.ServeHTTP the middleware makes for a request.
NextCalls(ok) == IF ok THEN 1 ELSE 0

\* if !limiter.Allow() { 429 } else { next.ServeHTTP(w, r) }
RlAllow(q) ==
    LET r == rlReqs[q]
        lim == buckets[r.limiter]
    IN
    /\ r.pc = "allow"
    /\ buckets' = [buckets EXCEPT ![r.limiter] = AfterAllow(lim, rlNow)]
    /\ IF AllowOk(lim, rlNow)
       THEN /\ rlReqs' = [rlReqs EXCEPT ![q].pc = "next",
                                        ![q].nextCalls = @ + NextCalls(TRUE)]
            /\ admitted' = [admitted EXCEPT ![r.key].n = @ + 1]
       ELSE /\ rlReqs' = [rlReqs EXCEPT
                            ![q].pc = "rejected",
                            ![q].nextCalls = @ + NextCalls(FALSE),
                            ![q].retryAfter = "1",
                            ![q].resp = "429 Rate limit exceeded. Please try again later."]
            /\ UNCHANGED admitted
    /\ UNCHANGED <<limiters, lastSeen, rlNow, janitor>>

\* The janitor's ticker fires: collect the expired keys under the read lock.
JanitorCollect ==
    LET expired == {k \in DOMAIN lastSeen : Expired(rlNow, lastSeen[k])} IN
    /\ janitor.pc = "wait"
    /\ rlNow >= janitor.nextTick
    /\ janitor' = [pc |-> IF expired = {} THEN "wait" ELSE "delete",
                   nextTick |-> janitor.nextTick + TTL,
                   now |-> rlNow,
                   keysToDelete |-> expired,
                   lastSweep |-> IF expired = {} THEN rlNow ELSE janitor.lastSweep]
    /\ UNCHANGED <<limiters, lastSeen, buckets, rlNow, rlReqs, admitted>>

\* The janitor deletes the collected keys from both maps under the write lock.
JanitorDelete ==
    /\ janitor.pc = "delete"
    /\ limiters' = MapDelete(limiters, janitor.keysToDelete)
    /\ lastSeen' = MapDelete(lastSeen, janitor.keysToDelete)
    /\ janitor' = [janitor EXCEPT !.pc = "wait", !.keysToDelete = {},
                                  !.lastSweep = janitor.now]
    /\ UNCHANGED <<buckets, rlNow, rlReqs, admitted>>

InitLimiter ==
    /\ InitRateLimiter
    /\ route = IdleRoute
    /\ InitStoreCallers
    /\ InitExtra
    /\ InitJobStore
    /\ InitNoProxy
    /\ mainPc = "serving"
    /\ natsClient = "nil"
    /\ jobStoreSet = FALSE
    /\ subscribed = FALSE
    /\ observed = [j \in JobIds |-> ""]

limiterFrame == <<jobVars, mainVars, lbVars, routeVars, sweepVars, orderVars, extraVars>>

NextLimiter ==
    \/ RlTick /\ UNCHANGED limiterFrame
    \/ \E q \in RlReqIds, key \in RlKeys :
          RlGetLimiterRead(q, key) /\ UNCHANGED limiterFrame
    \/ \E q \in RlReqIds : RlGetLimiterWrite(q) /\ UNCHANGED limiterFrame
    \/ \E q \in RlReqIds : RlAllow(q) /\ UNCHANGED limiterFrame
    \/ JanitorCollect /\ UNCHANGED limiterFrame
    \/ JanitorDelete /\ UNCHANGED limiterFrame

SpecLimiter == InitLimiter /\ [][NextLimiter]_vars

----------------------------------------------------------------------------
(* internal/storage/job_store.go : AddJob, GetJob, cleanupOldJobs *)

\* The records a caller hands to AddJob: any id (the empty one too), any
\* status or none, SubmittedAt and CompletedAt set or zero.
AddIds == JobIds \cup {""}
AddStatuses == {"", JobStatusCompleted}
AddTimes == {0, 1}
AddInfos == {[status |-> st, submittedAt |-> sa, startedAt |-> 0,
              completedAt |-> ca, message |-> ""] :
                st \in AddStatuses, sa \in AddTimes, ca \in AddTimes}

\* cleanupOldJobs is between its first Range and its return.
Sweeping == sweep.pc \in {"delete", "evict"}

SweepTick ==
    /\ now < MaxSweepTime
    /\ now' = now + 1
    /\ storeOp' = NoStoreOp
    /\ UNCHANGED <<jobs, handlers, sweep>>

\* A caller runs AddJob(info) with info.JobID = id.
StoreAdd(id, info) ==
    /\ jobs' = AddJob(jobs, id, info, now)
    /\ storeOp' = [op |-> "add", id |-> id, info |-> info, t |-> now,
                   replaced |-> id \in DOMAIN jobs]
    /\ sweep' = [sweep EXCEPT !.quiet = @ /\ ~Sweeping]
    /\ UNCHANGED <<now, handlers>>

\* JobStore.GetJob: the record it returns (JobInfo{} with the error).
GetJob(store, id) == IF id \in DOMAIN store THEN store[id] ELSE NoInfo

\* The caller of AddJob reads the record back: GetJob(id).
StoreGet(id) ==
    /\ storeOp.op = "add"
    /\ storeOp.id = id
    /\ storeOp' = [op |-> "get", id |-> id, err |-> GetJobErr(jobs, id),
                   job |-> GetJob(jobs, id), prev |-> storeOp]
    /\ UNCHANGED <<jobs, now, handlers, sweep>>

\* A client cancels a job while the sweeper exists.
StoreCancel(j) ==
    /\ CancelJob(j)
    /\ storeOp' = NoStoreOp
    /\ sweep' = [sweep EXCEPT !.quiet = @ /\ ~Sweeping]

\* cutoffTime := time.Now().UTC().Add(-24 * time.Hour)
CutoffTime(t) == t - Retention

\* !job.CompletedAt.IsZero()
HasCompletedAt(job) == job.completedAt # 0

\* The first pass keeps a record unless it is completed, failed or cancelled
\* with a CompletedAt that is set and before the cutoff.
ToDelete(job, cutoffTime) ==
    /\ job.status \in TerminalStatuses
    /\ HasCompletedAt(job)
    /\ job.completedAt < cutoffTime

\* JobStore.Count
Count(store) == Cardinality(DOMAIN store)

\* The ticker fires: cleanupOldJobs reads the clock and collects the ids to
\* delete in one Range over the map.
CleanupCollect ==
    /\ sweep.pc \in {"wait", "done"}
    /\ sweep' = [pc |-> "delete", now |-> now,
                 jobsToDelete |-> {id \in DOMAIN jobs :
                                     ToDelete(jobs[id], CutoffTime(now))},
                 quiet |-> TRUE, evicted |-> {}]
    /\ storeOp' = NoStoreOp
    /\ UNCHANGED <<jobs, now, handlers>>

\* Second pass: delete the collected jobs.
CleanupDelete ==
    /\ sweep.pc = "delete"
    /\ jobs' = MapDelete(jobs, sweep.jobsToDelete)
    /\ sweep' = [sweep EXCEPT !.pc = "evict", !.jobsToDelete = {}]
    /\ storeOp' = NoStoreOp
    /\ UNCHANGED <<now, handlers>>

\* An eviction that deletes any Count - maxJobs records.
Oldest_any(store) ==
    {D \in SUBSET DOMAIN store : Cardinality(D) = Count(store) - maxJobs}

\* The sets the eviction may delete: the first Count - maxJobs records of
\* the list sorted by SubmittedAt. Range gives the list in no fixed order,
\* so records with equal SubmittedAt may come out either way.
Oldest(store) ==
    {D \in SUBSET DOMAIN store :
        /\ Cardinality(D) = Count(store) - maxJobs
        /\ \A d \in D, k \in (DOMAIN store) \ D :
              store[d].submittedAt <= store[k].submittedAt}

\* if s.Count() > s.maxJobs { sort by SubmittedAt, delete the oldest }; then
\* cleanupOldJobs returns.
CleanupEvict ==
    /\ sweep.pc = "evict"
    /\ IF Count(jobs) > maxJobs
       THEN \E D \in Oldest(jobs) :
               /\ jobs' = MapDelete(jobs, D)
               /\ sweep' = [sweep EXCEPT !.pc = "done", !.evicted = D]
       ELSE /\ UNCHANGED jobs
            /\ sweep' = [sweep EXCEPT !.pc = "done"]
    /\ storeOp' = NoStoreOp
    /\ UNCHANGED <<now, handlers>>

InitSweep ==
    /\ InitJobStore
    /\ InitStoreCallers
    /\ InitExtra
    /\ route = IdleRoute
    /\ InitRateLimiter
    /\ InitNoProxy
    /\ mainPc = "serving"
    /\ natsClient = "nil"
    /\ jobStoreSet = FALSE
    /\ subscribed = FALSE
    /\ observed = [j \in JobIds |-> ""]

sweepFrame == <<mainVars, lbVars, routeVars, rlVars, orderVars, extraVars>>

NextSweep ==
    \/ SweepTick /\ UNCHANGED sweepFrame
    \/ \E id \in AddIds, info \in AddInfos : StoreAdd(id, info) /\ UNCHANGED sweepFrame
    \/ \E id \in AddIds : StoreGet(id) /\ UNCHANGED sweepFrame
    \/ \E j \in JobIds : StoreCancel(j) /\ UNCHANGED sweepFrame
    \/ CleanupCollect /\ UNCHANGED sweepFrame
    \/ CleanupDelete /\ UNCHANGED sweepFrame
    \/ CleanupEvict /\ UNCHANGED sweepFrame

SpecSweep == InitSweep /\ [][NextSweep]_vars

----------------------------------------------------------------------------
(* internal/messaging/nats.go : jobs.status messages, one goroutine each *)

\* The callback runs once per message, in the order of arrival, and starts
\* goroutine h for the h-th message.
DeliveryIds == 1 .. MaxDeliveries

\* The jobs clients submit; workers may report on any job id.
SubmittedIds == {"j1"}

\* The h-th message arrives on jobs.status: the callback starts a goroutine
\* for it and returns.
Deliver(h, j, s, sa, ea) ==
    /\ Len(arrived) = h - 1
    /\ handlers' = [handlers EXCEPT ![h] =
                      [pc |-> "update", jobID |-> j, status |-> s,
                       startedAt |-> sa, endedAt |-> ea, jobInfo |-> NoInfo]]
    /\ arrived' = Append(arrived, [jobID |-> j, status |-> s,
                                   known |-> j \in DOMAIN jobs])
    /\ UNCHANGED <<jobs, now>>

InitOrder ==
    /\ jobs = <<>>
    /\ now = 1
    /\ handlers = [h \in DeliveryIds |-> IdleHandler]
    /\ sweep = IdleSweep
    /\ storeOp = NoStoreOp
    /\ arrived = <<>>
    /\ InitExtra
    /\ route = IdleRoute
    /\ InitRateLimiter
    /\ InitNoProxy
    /\ mainPc = "serving"
    /\ natsClient = "ok"
    /\ jobStoreSet = TRUE
    /\ subscribed = TRUE
    /\ observed = [j \in JobIds |-> ""]

orderFrame == <<mainVars, lbVars, routeVars, rlVars, sweepVars, extraVars>>

NextOrder ==
    \/ \E j \in SubmittedIds : SubmitJob(j) /\ UNCHANGED <<orderFrame, arrived>>
    \/ \E h \in DeliveryIds, j \in JobIds, s \in WireStatuses,
          sa \in MsgTimes, ea \in MsgTimes :
          Deliver(h, j, s, sa, ea) /\ UNCHANGED orderFrame
    \/ \E h \in DeliveryIds : HandlerUpdate(h) /\ UNCHANGED <<orderFrame, arrived>>
    \/ \E h \in DeliveryIds : HandlerGet(h) /\ UNCHANGED <<orderFrame, arrived>>
    \/ \E h \in DeliveryIds : HandlerStarted(h) /\ UNCHANGED <<orderFrame, arrived>>
    \/ \E h \in DeliveryIds : HandlerEnded(h) /\ UNCHANGED <<orderFrame, arrived>>

SpecOrder == InitOrder /\ [][NextOrder]_vars

----------------------------------------------------------------------------
(* internal/messaging/nats.go : Subscribe, the callback of conn.Subscribe *)

\* The gateway with nothing in flight: the state every subsystem starts in.
InitGateway ==
    /\ InitJobStore
    /\ InitNoProxy
    /\ mainPc = "serving"
    /\ natsClient = "ok"
    /\ jobStoreSet = TRUE
    /\ subscribed = TRUE
    /\ observed = [j \in JobIds |-> ""]
    /\ InitRest

\* A publisher sends message m; the server delivers it to the subscription
\* (core NATS: once, no acknowledgement is asked for) and the callback starts
\* a goroutine for it and returns.
NatsDeliver(m) ==
    /\ natsMsgs[m].pc = "unsent"
    /\ natsMsgs' = [natsMsgs EXCEPT ![m].pc = "running"]

\* handler(msg.Data) returns.
NatsHandlerReturn(m) ==
    /\ natsMsgs[m].pc = "running"
    /\ natsMsgs' = [natsMsgs EXCEPT ![m].pc = "done", ![m].runs = @ + 1]

\* handler(msg.Data) panics: the goroutine unwinds into its deferred func.
NatsHandlerPanic(m) ==
    /\ natsMsgs[m].pc = "running"
    /\ natsMsgs' = [natsMsgs EXCEPT ![m].pc = "panicking", ![m].runs = @ + 1,
                                    ![m].panics = @ + 1]

\* defer func() { if r := recover(); r != nil { logger.Errorf(...) } }():
\* the panic is logged and the goroutine ends. Nothing is sent to the server.
NatsRecover(m) ==
    /\ natsMsgs[m].pc = "panicking"
    /\ natsMsgs' = [natsMsgs EXCEPT ![m].pc = "done", ![m].recovered = @ + 1]

InitConsumer == InitGateway

consumerFrame == <<jobVars, mainVars, lbVars, routeVars, rlVars, sweepVars, orderVars,
                   watchVars, authVars, shutVars, logVars, pathVars, brokerVars>>

NextConsumer ==
    \/ \E m \in MsgIds : NatsDeliver(m) /\ UNCHANGED consumerFrame
    \/ \E m \in MsgIds : NatsHandlerReturn(m) /\ UNCHANGED consumerFrame
    \/ \E m \in MsgIds : NatsHandlerPanic(m) /\ UNCHANGED consumerFrame
    \/ \E m \in MsgIds : NatsRecover(m) /\ UNCHANGED consumerFrame

SpecConsumer == InitConsumer /\ [][NextConsumer]_vars

\* A published message is delivered, a started handler returns or panics,
\* and a panicking goroutine runs its deferred func.
ConsumerFairness ==
    \A m \in MsgIds :
        /\ WF_vars(NatsDeliver(m) /\ UNCHANGED consumerFrame)
        /\ WF_vars((NatsHandlerReturn(m) \/ NatsHandlerPanic(m)) /\ UNCHANGED consumerFrame)
        /\ WF_vars(NatsRecover(m) /\ UNCHANGED consumerFrame)

FairSpecConsumer == SpecConsumer /\ ConsumerFairness

----------------------------------------------------------------------------
(* internal/proxy/proxy.go : getServiceInstance's lazy creation,            *)
(* watchServiceChanges; internal/discovery/consul.go : WatchService         *)

\* The service's entries change in Consul: the index grows.
ConsulModify ==
    /\ ~fatal
    /\ consulIndex < MaxIndex
    /\ consulIndex' = consulIndex + 1
    /\ UNCHANGED <<lbCreated, lazyReqs, watchers, lastApplied, stopRequested, fatal>>

\* if _, exists := ph.loadBalancers[serviceName]; !exists: the request reads
\* the map, which no lock guards.
LazyCheck(r) ==
    /\ ~fatal
    /\ lazyReqs[r] = "idle"
    /\ lazyReqs' = [lazyReqs EXCEPT ![r] = IF lbCreated = 0 THEN "creating" ELSE "done"]
    /\ UNCHANGED <<consulIndex, lbCreated, watchers, lastApplied, stopRequested, fatal>>

\* The watcher the next go ph.watchServiceChanges(serviceName) starts.
NextWatcher == lbCreated + 1

\* DiscoverService found instances: ph.loadBalancers[serviceName] =
\* NewLoadBalancer(...) replaces whatever the map holds, and a watcher is
\* started.
LazyCreate(r) ==
    /\ ~fatal
    /\ lazyReqs[r] = "creating"
    /\ lbCreated' = lbCreated + 1
    /\ watchers' = [watchers EXCEPT ![NextWatcher] =
                      [NoWatcher EXCEPT !.pc = "query", !.rpc = "select"]]
    /\ lazyReqs' = [lazyReqs EXCEPT ![r] = "done"]
    /\ UNCHANGED <<consulIndex, lastApplied, stopRequested, fatal>>

\* Two requests write the map at the same time: the runtime may detect it
\* and end the process (fatal error: concurrent map writes).
LazyCreateFatal ==
    /\ ~fatal
    /\ \E r1, r2 \in LazyReqIds :
          r1 # r2 /\ lazyReqs[r1] = "creating" /\ lazyReqs[r2] = "creating"
    /\ fatal' = TRUE
    /\ UNCHANGED <<consulIndex, lbCreated, lazyReqs, watchers, lastApplied, stopRequested>>

\* HandleProxy returned: the request slot serves the next request.
LazyDone(r) ==
    /\ ~fatal
    /\ lazyReqs[r] = "done"
    /\ lazyReqs' = [lazyReqs EXCEPT ![r] = "idle"]
    /\ UNCHANGED <<consulIndex, lbCreated, watchers, lastApplied, stopRequested, fatal>>

\* A watcher that starts again from index 0 after a failed query.
NextLastIndex_reset(lastIndex, failed, metaLastIndex) ==
    IF failed THEN 0 ELSE metaLastIndex

\* lastIndex after a query: err != nil continues the loop before
\* lastIndex = meta.LastIndex.
NextLastIndex(lastIndex, failed, metaLastIndex) ==
    IF failed THEN lastIndex ELSE metaLastIndex

\* Health().Service(..., WaitIndex: lastIndex, WaitTime: 30s) returns, on a
\* change or when the wait time is over, with the current index;
\* lastIndex = meta.LastIndex and the snapshot is about to be sent.
WatchQuery(w) ==
    /\ ~fatal
    /\ watchers[w].pc = "query"
    /\ watchers' = [watchers EXCEPT ![w].pc = "send",
                                    ![w].lastIndex =
                                        NextLastIndex(@, FALSE, consulIndex),
                                    ![w].sending = consulIndex]
    /\ UNCHANGED <<consulIndex, lbCreated, lazyReqs, lastApplied, stopRequested, fatal>>

\* instancesChan <- instances meets case instances := <-instancesChan: the
\* goroutine goes back to its query, the loop is about to call
\* UpdateInstances.
WatchReceive(w) ==
    /\ ~fatal
    /\ watchers[w].pc = "send"
    /\ watchers[w].rpc = "select"
    /\ watchers' = [watchers EXCEPT ![w].pc = "query", ![w].sending = 0,
                                    ![w].rpc = "update",
                                    ![w].received = watchers[w].sending]
    /\ UNCHANGED <<consulIndex, lbCreated, lazyReqs, lastApplied, stopRequested, fatal>>

\* ph.loadBalancers[serviceName].UpdateInstances(instances): applied to the
\* load balancer the map holds now.
WatchUpdate(w) ==
    /\ ~fatal
    /\ watchers[w].rpc = "update"
    /\ lastApplied' = [lb |-> lbCreated, index |-> watchers[w].received]
    /\ watchers' = [watchers EXCEPT ![w].rpc = "select", ![w].received = 0]
    /\ UNCHANGED <<consulIndex, lbCreated, lazyReqs, stopRequested, fatal>>

\* <-quit in main(): the gateway is told to stop. WatchService and
\* watchServiceChanges take no context and no stop channel.
StopRequest ==
    /\ ~fatal
    /\ ~stopRequested
    /\ stopRequested' = TRUE
    /\ UNCHANGED <<consulIndex, lbCreated, lazyReqs, watchers, lastApplied, fatal>>

InitWatchers == InitGateway

watchFrame == <<jobVars, mainVars, lbVars, routeVars, rlVars, sweepVars, orderVars,
                consumerVars, authVars, shutVars, logVars, pathVars, brokerVars>>

NextWatch ==
    \/ ConsulModify /\ UNCHANGED watchFrame
    \/ \E r \in LazyReqIds : LazyCheck(r) /\ UNCHANGED watchFrame
    \/ \E r \in LazyReqIds : LazyCreate(r) /\ UNCHANGED watchFrame
    \/ LazyCreateFatal /\ UNCHANGED watchFrame
    \/ \E r \in LazyReqIds : LazyDone(r) /\ UNCHANGED watchFrame
    \/ \E w \in WatcherIds : WatchQuery(w) /\ UNCHANGED watchFrame
    \/ \E w \in WatcherIds : WatchReceive(w) /\ UNCHANGED watchFrame
    \/ \E w \in WatcherIds : WatchUpdate(w) /\ UNCHANGED watchFrame
    \/ StopRequest /\ UNCHANGED watchFrame

SpecWatch == InitWatchers /\ [][NextWatch]_vars

\* The watcher's goroutines are scheduled: a query returns (at the latest
\* when its wait time is over), a send meets its receive, the loop calls
\* UpdateInstances.
WatchFairness ==
    \A w \in WatcherIds :
        /\ WF_vars(WatchQuery(w) /\ UNCHANGED watchFrame)
        /\ WF_vars(WatchReceive(w) /\ UNCHANGED watchFrame)
        /\ WF_vars(WatchUpdate(w) /\ UNCHANGED watchFrame)

FairSpecWatch == SpecWatch /\ WatchFairness

----------------------------------------------------------------------------
(* internal/middleware/auth.go : JWTAuth, RequireRole;                      *)
(* internal/handlers/job_submission.go : SubmitJob, ListJobs,               *)
(* ListJobsByStatus behind the gate                                         *)

\* jwt.SigningMethodHMAC, and the other values an alg header can have: a
\* registered method that is not HMAC, "none", an unregistered name.
HMACAlgs == {"HS256", "HS384"}
RegisteredAlgs == HMACAlgs \cup {"RS256", "none"}
Algs == RegisteredAlgs \cup {"XX"}

\* The signature segment: the HMAC of the token under the configured secret
\* with the token's alg ("valid"), another value, or empty.
Sigs == {"valid", "forged", ""}
UserIds == {"u1", "u2"}
Roles == {"", "user", "admin"}
AuthTimes == 1 .. MaxAuthTime

\* The tokens a client can send: three well-formed segments with any alg,
\* signature, exp claim (0: none) and user claims, or a string that is no JWT.
Tokens ==
    {[wellFormed |-> TRUE, alg |-> a, sig |-> s, exp |-> e, userID |-> u, role |-> ro] :
        a \in Algs, s \in Sigs, e \in {0} \cup AuthTimes, u \in UserIds, ro \in Roles}
    \cup {NoToken}

\* A token GenerateToken made for user u1 with the configured secret.
GeneratedToken == [wellFormed |-> TRUE, alg |-> "HS256", sig |-> "valid",
                   exp |-> MaxAuthTime, userID |-> "u1", role |-> "admin"]

\* The Authorization headers: none, "Bearer <token>", and headers that
\* strings.Split(authHeader, " ") does not cut into "Bearer" and one token.
Headers ==
    {NoHeader}
    \cup {[nparts |-> 2, scheme |-> "Bearer", token |-> t] : t \in Tokens}
    \cup {[nparts |-> n, scheme |-> s, token |-> GeneratedToken] :
             n \in {1, 2, 3}, s \in {"Bearer", "bearer", "Basic"}}

\* The key a context value is stored under: its Go type and its string.
UserIDContextKey == <<"contextKey", "user_id">>
UsernameContextKey == <<"contextKey", "username">>
UserRoleContextKey == <<"contextKey", "user_role">>

\* ctx.Value(key): the value and whether there is one. Keys are compared
\* with ==, so the type of the key counts.
CtxHas(ctx, key) == key \in DOMAIN ctx
CtxValue(ctx, key) == IF CtxHas(ctx, key) THEN ctx[key] ELSE ""

\* The keyfunc given to ParseWithClaims.
KeyFuncErr(tok) ==
    IF tok.alg \notin HMACAlgs THEN "unexpected signing method" ELSE "nil"

\* A validation of exp that accepts every token.
TokenExpired_never(tok, t) == FALSE

\* The exp claim, when there is one, is not after now.
TokenExpired(tok, t) == tok.exp # 0 /\ t >= tok.exp

\* jwt.ParseWithClaims: parse the segments and look the alg up, ask the
\* keyfunc for the key, verify the signature, validate the claims.
ParseWithClaimsErr(tok, t) ==
    IF ~tok.wellFormed THEN "ErrTokenMalformed"
    ELSE IF tok.alg \notin RegisteredAlgs THEN "ErrTokenUnverifiable"
    ELSE IF KeyFuncErr(tok) # "nil" THEN "ErrTokenUnverifiable"
    ELSE IF tok.sig # "valid" THEN "ErrTokenSignatureInvalid"
    ELSE IF TokenExpired(tok, t) THEN "ErrTokenExpired"
    ELSE "nil"

\* A ParseWithClaims that validates the claims before anything else.
GateError_claimsFirst(h, t) ==
    IF h.nparts = 0 THEN "Unauthorized: no token provided"
    ELSE IF h.nparts # 2 \/ h.scheme # "Bearer" THEN "Unauthorized: invalid token format"
    ELSE IF h.token.wellFormed /\ TokenExpired(h.token, t)
         THEN "Unauthorized: token has expired"
    ELSE IF ParseWithClaimsErr(h.token, t) # "nil" THEN "Unauthorized: invalid token"
    ELSE ""

\* The body JWTAuth writes with 401, "" when it lets the request through.
GateError(h, t) ==
    IF h.nparts = 0 THEN "Unauthorized: no token provided"
    ELSE IF h.nparts # 2 \/ h.scheme # "Bearer" THEN "Unauthorized: invalid token format"
    ELSE IF ParseWithClaimsErr(h.token, t) = "ErrTokenExpired"
         THEN "Unauthorized: token has expired"
    ELSE IF ParseWithClaimsErr(h.token, t) # "nil" THEN "Unauthorized: invalid token"
    ELSE ""

\* context.WithValue three times: user id, username, role of the claims.
GateContext(ctx, tok) ==
    [k \in (DOMAIN ctx) \cup {UserIDContextKey, UsernameContextKey, UserRoleContextKey} |->
        IF k = UserIDContextKey THEN tok.userID
        ELSE IF k = UsernameContextKey THEN "name"
        ELSE IF k = UserRoleContextKey THEN tok.role
        ELSE ctx[k]]

\* The routes: the job handlers behind JWTAuth, a handler behind JWTAuth and
\* RequireRole, and a handler behind RequireRole alone.
GatedRoutes == {"submit", "list", "listByStatus", "guarded"}
AuthRoutes == GatedRoutes \cup {"roleOnly"}
RequiredRoles == {"", "admin", "user"}

\* The stage a request goes to when JWTAuth calls next.
AfterGate(rt) == IF rt = "guarded" THEN "role" ELSE "handler"

AuthTick ==
    /\ authNow < MaxAuthTime
    /\ authReq.pc = "idle"
    /\ authNow' = authNow + 1
    /\ UNCHANGED <<authReq, jobOwners>>

\* A request arrives on a route.
AuthRequest(rt, h, required) ==
    /\ authReq.pc = "idle"
    /\ authReq' = [IdleAuthReq EXCEPT
                     !.pc = IF rt = "roleOnly" THEN "role" ELSE "gate",
                     !.route = rt, !.header = h, !.required = required]
    /\ UNCHANGED <<authNow, jobOwners>>

\* JWTAuth's handler: 401 with a body, or the context is filled from the
\* claims and next.ServeHTTP is called.
JWTAuthServe ==
    /\ authReq.pc = "gate"
    /\ authReq' =
         IF GateError(authReq.header, authNow) # ""
         THEN [authReq EXCEPT !.pc = "done", !.status = 401,
                              !.body = GateError(authReq.header, authNow),
                              !.gateTime = authNow]
         ELSE [authReq EXCEPT !.pc = AfterGate(authReq.route),
                              !.ctx = GateContext(authReq.ctx, authReq.header.token),
                              !.gateNext = @ + 1,
                              !.gateTime = authNow]
    /\ UNCHANGED <<authNow, jobOwners>>

\* A RequireRole that lets everybody with a role through.
RoleError_anyRole(ctx, required) ==
    IF ~CtxHas(ctx, UserRoleContextKey) \/ CtxValue(ctx, UserRoleContextKey) = ""
    THEN "Forbidden: authentication required"
    ELSE ""

\* The body RequireRole writes with 403, "" when it lets the request through.
RoleError(ctx, required) ==
    IF ~CtxHas(ctx, UserRoleContextKey) \/ CtxValue(ctx, UserRoleContextKey) = ""
    THEN "Forbidden: authentication required"
    ELSE IF CtxValue(ctx, UserRoleContextKey) # required
            /\ CtxValue(ctx, UserRoleContextKey) # "admin"
    THEN "Forbidden: insufficient permissions"
    ELSE ""

\* RequireRole(required)'s handler.
RequireRoleServe ==
    /\ authReq.pc = "role"
    /\ authReq' =
         IF RoleError(authReq.ctx, authReq.required) # ""
         THEN [authReq EXCEPT !.pc = "done", !.status = 403,
                              !.body = RoleError(authReq.ctx, authReq.required)]
         ELSE [authReq EXCEPT !.pc = "handler", !.roleNext = @ + 1]
    /\ UNCHANGED <<authNow, jobOwners>>

\* The keys the job handlers read the context with: plain strings.
HandlerUserIDKey == <<"string", "user_id">>
HandlerUserRoleKey == <<"string", "user_role">>

\* SubmitJob behind the gate: userIDStr is the context's user id, or "" when
\* Value returns nil; the job is stored with it and 202 is written.
SubmitJobServe ==
    /\ authReq.pc = "handler"
    /\ authReq.route = "submit"
    /\ Len(jobOwners) < MaxAuthJobs
    /\ jobOwners' = Append(jobOwners, CtxValue(authReq.ctx, HandlerUserIDKey))
    /\ authReq' = [authReq EXCEPT !.pc = "done", !.status = 202,
                                  !.body = "Job submitted successfully"]
    /\ UNCHANGED authNow

\* JobStore.ListJobsByUser
ListJobsByUser(owners, userID) == {j \in DOMAIN owners : owners[j] = userID}

\* ListJobs behind the gate: 401 when Value returns nil, else the jobs of
\* the user.
ListJobsServe ==
    /\ authReq.pc = "handler"
    /\ authReq.route = "list"
    /\ authReq' =
         IF ~CtxHas(authReq.ctx, HandlerUserIDKey)
         THEN [authReq EXCEPT !.pc = "done", !.status = 401,
                              !.body = "User ID not found in request context"]
         ELSE [authReq EXCEPT !.pc = "done", !.status = 200,
                              !.listed = ListJobsByUser(jobOwners,
                                            CtxValue(authReq.ctx, HandlerUserIDKey))]
    /\ UNCHANGED <<authNow, jobOwners>>

\* ListJobsByStatus behind the gate: 403 unless the context's role is admin.
ListJobsByStatusServe ==
    /\ authReq.pc = "handler"
    /\ authReq.route = "listByStatus"
    /\ authReq' =
         IF ~CtxHas(authReq.ctx, HandlerUserRoleKey)
            \/ CtxValue(authReq.ctx, HandlerUserRoleKey) # "admin"
         THEN [authReq EXCEPT !.pc = "done", !.status = 403,
                              !.body = "Unauthorized: admin role required"]
         ELSE [authReq EXCEPT !.pc = "done", !.status = 200,
                              !.listed = DOMAIN jobOwners]
    /\ UNCHANGED <<authNow, jobOwners>>

\* The handler behind RequireRole writes 200.
GuardedServe ==
    /\ authReq.pc = "handler"
    /\ authReq.route \in {"guarded", "roleOnly"}
    /\ authReq' = [authReq EXCEPT !.pc = "done", !.status = 200]
    /\ UNCHANGED <<authNow, jobOwners>>

\* The response was sent: the next request can come.
AuthDone ==
    /\ authReq.pc = "done"
    /\ authReq' = IdleAuthReq
    /\ UNCHANGED <<authNow, jobOwners>>

InitAuthGate == InitGateway

authFrame == <<jobVars, mainVars, lbVars, routeVars, rlVars, sweepVars, orderVars,
               consumerVars, watchVars, shutVars, logVars, pathVars, brokerVars>>

NextAuth ==
    \/ AuthTick /\ UNCHANGED authFrame
    \/ \E rt \in AuthRoutes, h \in Headers, required \in RequiredRoles :
          AuthRequest(rt, h, required) /\ UNCHANGED authFrame
    \/ JWTAuthServe /\ UNCHANGED authFrame
    \/ RequireRoleServe /\ UNCHANGED authFrame
    \/ SubmitJobServe /\ UNCHANGED authFrame
    \/ ListJobsServe /\ UNCHANGED authFrame
    \/ ListJobsByStatusServe /\ UNCHANGED authFrame
    \/ GuardedServe /\ UNCHANGED authFrame
    \/ AuthDone /\ UNCHANGED authFrame

SpecAuth == InitAuthGate /\ [][NextAuth]_vars

----------------------------------------------------------------------------
(* cmd/main.go : main(), from the registration in Consul to the return *)

\* The requests the HTTP server has in flight at most.
MaxShutReqs == 2

\* Consul registration: on success the entry exists and Deregister is
\* deferred; with no Consul address or on an error nothing is deferred.
ShutRegister(ok) ==
    /\ shut.pc = "consul"
    /\ shut' = IF ok
               THEN [shut EXCEPT !.pc = "nats", !.registered = TRUE,
                                 !.defers = Append(@, "Deregister")]
               ELSE [shut EXCEPT !.pc = "nats"]

\* NewNATSClient: on success natsClient.Close is deferred.
ShutConnect(ok) ==
    /\ shut.pc = "nats"
    /\ shut' = IF ok
               THEN [shut EXCEPT !.pc = "listen", !.broker = "open",
                                 !.defers = Append(@, "natsClient.Close")]
               ELSE [shut EXCEPT !.pc = "listen"]

\* go server.ListenAndServe(), then main waits on quit.
ShutListen ==
    /\ shut.pc = "listen"
    /\ shut' = [shut EXCEPT !.pc = "serving", !.listening = TRUE]

\* ListenAndServe returns an error that is not ErrServerClosed:
\* logger.Fatalf ends the process, no deferred call runs.
ShutListenFatal ==
    /\ shut.pc \in {"listen", "serving"}
    /\ shut' = [shut EXCEPT !.pc = "exited", !.listening = FALSE, !.inflight = 0,
                            !.err = "HTTP server error"]

\* The server accepts a request.
ShutAccept ==
    /\ shut.listening
    /\ shut.inflight < MaxShutReqs
    /\ shut' = [shut EXCEPT !.inflight = @ + 1]

\* A handler returns and its response is written.
ShutFinish ==
    /\ shut.pc # "exited"
    /\ shut.inflight > 0
    /\ shut' = [shut EXCEPT !.inflight = @ - 1]

\* SIGINT or SIGTERM arrives on quit; context.WithTimeout, defer cancel().
ShutSignal ==
    /\ shut.pc = "serving"
    /\ shut' = [shut EXCEPT !.pc = "shutdown", !.defers = Append(@, "cancel")]

\* server.Shutdown closes the listeners and starts to wait.
ShutdownBegin ==
    /\ shut.pc = "shutdown"
    /\ shut' = [shut EXCEPT !.pc = "draining", !.listening = FALSE]

\* The order deferred calls run in when main returns: last deferred first.
RunOrder(defers) == [i \in 1 .. Len(defers) |-> defers[Len(defers) + 1 - i]]

\* server.Shutdown returns nil: no connection is active any more.
ShutdownIdle ==
    /\ shut.pc = "draining"
    /\ shut.inflight = 0
    /\ shut' = [shut EXCEPT !.pc = "defers", !.err = "nil", !.left = 0,
                            !.stack = RunOrder(shut.defers)]

\* The 10 s of ctx pass with a request in flight: server.Shutdown returns
\* ctx.Err(), which main logs; the connections in use stay open.
ShutdownDeadline ==
    /\ shut.pc = "draining"
    /\ shut.inflight > 0
    /\ shut' = [shut EXCEPT !.pc = "defers", !.err = "context deadline exceeded",
                            !.left = shut.inflight,
                            !.stack = RunOrder(shut.defers)]

\* main returns: the next deferred call. natsClient.Close is conn.Drain()
\* and then conn.Close(); Deregister may fail, which is logged.
RunDeferred(deregOk) ==
    /\ shut.pc = "defers"
    /\ shut.stack # <<>>
    /\ shut' =
         IF Head(shut.stack) = "natsClient.Close"
         THEN IF shut.broker = "open"
              THEN [shut EXCEPT !.broker = "draining"]
              ELSE [shut EXCEPT !.broker = "closed", !.stack = Tail(@)]
         ELSE IF Head(shut.stack) = "Deregister"
         THEN [shut EXCEPT !.registered = ~deregOk, !.stack = Tail(@)]
         ELSE [shut EXCEPT !.stack = Tail(@)]

\* Every deferred call has run: the process ends, with whatever it still
\* had in flight.
ShutExit ==
    /\ shut.pc = "defers"
    /\ shut.stack = <<>>
    /\ shut' = [shut EXCEPT !.pc = "exited", !.inflight = 0]

InitShutdown == InitGateway

shutFrame == <<jobVars, mainVars, lbVars, routeVars, rlVars, sweepVars, orderVars,
               consumerVars, watchVars, authVars, logVars, pathVars, brokerVars>>

NextShutdown ==
    \/ \E ok \in BOOLEAN : ShutRegister(ok) /\ UNCHANGED shutFrame
    \/ \E ok \in BOOLEAN : ShutConnect(ok) /\ UNCHANGED shutFrame
    \/ ShutListen /\ UNCHANGED shutFrame
    \/ ShutListenFatal /\ UNCHANGED shutFrame
    \/ ShutAccept /\ UNCHANGED shutFrame
    \/ ShutFinish /\ UNCHANGED shutFrame
    \/ ShutSignal /\ UNCHANGED shutFrame
    \/ ShutdownBegin /\ UNCHANGED shutFrame
    \/ ShutdownIdle /\ UNCHANGED shutFrame
    \/ ShutdownDeadline /\ UNCHANGED shutFrame
    \/ \E deregOk \in BOOLEAN : RunDeferred(deregOk) /\ UNCHANGED shutFrame
    \/ ShutExit /\ UNCHANGED shutFrame

SpecShutdown == InitShutdown /\ [][NextShutdown]_vars

----------------------------------------------------------------------------
(* internal/discovery/consul.go : the queries of one WatchService goroutine *)

\* The queries the log keeps.
MaxQueries == 3

\* Health().Service returns an error: the goroutine is about to send it on
\* errChan.
WatchQueryFail(w) ==
    /\ ~fatal
    /\ watchers[w].pc = "query"
    /\ watchers' = [watchers EXCEPT ![w].pc = "sendErr",
                                    ![w].lastIndex = NextLastIndex(@, TRUE, 0)]
    /\ UNCHANGED <<consulIndex, lbCreated, lazyReqs, lastApplied, stopRequested, fatal>>

\* errChan <- err meets case err := <-errChan, which logs it.
WatchErrReceive(w) ==
    /\ ~fatal
    /\ watchers[w].pc = "sendErr"
    /\ watchers[w].rpc = "select"
    /\ watchers' = [watchers EXCEPT ![w].pc = "sleep"]
    /\ UNCHANGED <<consulIndex, lbCreated, lazyReqs, lastApplied, stopRequested, fatal>>

\* time.Sleep(time.Second) is over; continue.
WatchBackoff(w) ==
    /\ ~fatal
    /\ watchers[w].pc = "sleep"
    /\ watchers' = [watchers EXCEPT ![w].pc = "query"]
    /\ UNCHANGED <<consulIndex, lbCreated, lazyReqs, lastApplied, stopRequested, fatal>>

\* The entry of the log for a query with WaitIndex wait.
QueryEntry(wait, failed, ret) ==
    [wait |-> wait, failed |-> failed, ret |-> ret, emits |-> 0]

InitWatchLog == InitGateway

logFrame == <<jobVars, mainVars, lbVars, routeVars, rlVars, sweepVars, orderVars,
              consumerVars, authVars, shutVars, pathVars, brokerVars>>

\* One request creates the load balancer and its watcher; every query of
\* the watcher, its outcome and every snapshot sent are logged.
NextWatchLog ==
    \/ ConsulModify /\ UNCHANGED <<logFrame, queryLog>>
    \/ LazyCheck(1) /\ UNCHANGED <<logFrame, queryLog>>
    \/ LazyCreate(1) /\ UNCHANGED <<logFrame, queryLog>>
    \/ LazyDone(1) /\ UNCHANGED <<logFrame, queryLog>>
    \/ /\ Len(queryLog) < MaxQueries
       /\ WatchQuery(1)
       /\ queryLog' = Append(queryLog,
                              QueryEntry(watchers[1].lastIndex, FALSE, consulIndex))
       /\ UNCHANGED logFrame
    \/ /\ Len(queryLog) < MaxQueries
       /\ WatchQueryFail(1)
       /\ queryLog' = Append(queryLog, QueryEntry(watchers[1].lastIndex, TRUE, 0))
       /\ UNCHANGED logFrame
    \/ /\ WatchReceive(1)
       /\ queryLog' = [queryLog EXCEPT ![Len(queryLog)].emits = @ + 1]
       /\ UNCHANGED logFrame
    \/ WatchErrReceive(1) /\ UNCHANGED <<logFrame, queryLog>>
    \/ WatchBackoff(1) /\ UNCHANGED <<logFrame, queryLog>>
    \/ WatchUpdate(1) /\ UNCHANGED <<logFrame, queryLog>>

SpecWatchLog == InitWatchLog /\ [][NextWatchLog]_vars

----------------------------------------------------------------------------
(* cmd/main.go : router.Use(TokenBucketRateLimit(...)) and GET /health *)

\* The paths of the requests: the health endpoint and a public API route.
Paths == {"/health", "/api/v1/status"}

\* A request for path p enters the router: every middleware given to
\* router.Use runs for every route of the router, whatever the path, so the
\* request enters RateLimit first.
RouterServe(q, key, p) ==
    /\ RlGetLimiterRead(q, key)
    /\ rlPaths' = [rlPaths EXCEPT ![q] = p]

\* RateLimit called next.ServeHTTP for a request to /health: the handler
\* writes 200 and "OK".
HealthServe(q) ==
    /\ rlReqs[q].pc = "next"
    /\ rlPaths[q] = "/health"
    /\ rlReqs[q].resp = ""
    /\ rlReqs' = [rlReqs EXCEPT ![q].resp = "200 OK"]
    /\ UNCHANGED <<limiters, lastSeen, buckets, rlNow, janitor, admitted, rlPaths>>

InitRouter == InitLimiter

routerFrame == <<jobVars, mainVars, lbVars, routeVars, sweepVars, orderVars,
                 consumerVars, watchVars, authVars, shutVars, logVars, brokerVars>>

NextRouter ==
    \/ RlTick /\ UNCHANGED <<routerFrame, rlPaths>>
    \/ \E q \in RlReqIds, key \in RlKeys, p \in Paths :
          RouterServe(q, key, p) /\ UNCHANGED routerFrame
    \/ \E q \in RlReqIds : RlGetLimiterWrite(q) /\ UNCHANGED <<routerFrame, rlPaths>>
    \/ \E q \in RlReqIds : RlAllow(q) /\ UNCHANGED <<routerFrame, rlPaths>>
    \/ \E q \in RlReqIds : HealthServe(q) /\ UNCHANGED routerFrame
    \/ JanitorCollect /\ UNCHANGED <<routerFrame, rlPaths>>
    \/ JanitorDelete /\ UNCHANGED <<routerFrame, rlPaths>>

SpecRouter == InitRouter /\ [][NextRouter]_vars

----------------------------------------------------------------------------
(* internal/handlers/job_submission.go : SubmitJob and CancelJob with the   *)
(* broker's answer                                                          *)

\* The requests of one run.
MaxBrokerReqs == 3

\* SubmitJob: h.jobStore.AddJob(...) runs before the publish, whatever the
\* publish answers.
SubmitStore(store, j, t, client, published) ==
    AddJob(store, j,
      [status |-> JobStatusQueued, submittedAt |-> t,
       startedAt |-> 0, completedAt |-> 0, message |-> MsgSubmitted], t)

\* SubmitJob: 500 when PublishToStream fails, 202 otherwise; without a NATS
\* client nothing is published.
SubmitCode(client, published) ==
    IF client # "nil" /\ ~published THEN 500 ELSE 202

\* CancelJob: 404 when GetJob fails, 500 when the publish to jobs.cancel
\* fails, 200 otherwise.
CancelCode(store, j, client, published) ==
    IF GetJobErr(store, j) # "nil" THEN 404
    ELSE IF client # "nil" /\ ~published THEN 500 ELSE 200

\* POST /api/v1/jobs with a valid body: the record is added, then the job
\* message is published to the stream.
SubmitJobPublish(j, published) ==
    /\ lastReq.n < MaxBrokerReqs
    /\ j \notin DOMAIN jobs
    /\ jobs' = SubmitStore(jobs, j, now, natsClient, published)
    /\ lastReq' = [n |-> lastReq.n + 1, op |-> "SubmitJob", id |-> j,
                   code |-> SubmitCode(natsClient, published)]
    /\ UNCHANGED <<now, handlers>>

\* DELETE /api/v1/jobs/{jobID}: GetJob, UpdateJobStatus(cancelled), then the
\* publish to jobs.cancel.
CancelJobPublish(j, published) ==
    /\ lastReq.n < MaxBrokerReqs
    /\ CancelJob(j)
    /\ lastReq' = [n |-> lastReq.n + 1, op |-> "CancelJob", id |-> j,
                   code |-> CancelCode(jobs, j, natsClient, published)]

InitBroker ==
    /\ InitJobStore
    /\ InitNoProxy
    /\ mainPc = "serving"
    /\ natsClient \in {"ok", "nil"}
    /\ jobStoreSet = (natsClient = "ok")
    /\ subscribed = (natsClient = "ok")
    /\ observed = [j \in JobIds |-> ""]
    /\ InitRest

brokerFrame == <<mainVars, lbVars, routeVars, rlVars, sweepVars, orderVars,
                 consumerVars, watchVars, authVars, shutVars, logVars, pathVars>>

NextBroker ==
    \/ Tick /\ UNCHANGED <<brokerFrame, lastReq>>
    \/ \E j \in JobIds, published \in BOOLEAN :
          SubmitJobPublish(j, published) /\ UNCHANGED brokerFrame
    \/ \E j \in JobIds, published \in BOOLEAN :
          CancelJobPublish(j, published) /\ UNCHANGED brokerFrame

SpecBroker == InitBroker /\ [][NextBroker]_vars

----------------------------------------------------------------------------
(* Claims about the job store and the status consumer *)

\* The status FSM of the job record.
FSMEdges ==
    {<<JobStatusQueued, JobStatusProcessing>>, <<JobStatusQueued, JobStatusCancelled>>,
     <<JobStatusQueued, JobStatusFailed>>, <<JobStatusProcessing, JobStatusCompleted>>,
     <<JobStatusProcessing, JobStatusFailed>>, <<JobStatusProcessing, JobStatusCancelled>>}

\* The step is handler h's UpdateJobStatus call on a stored job.
ConsumerUpdateStep(h) ==
    /\ handlers[h].pc = "update"
    /\ handlers'[h].pc # "update"
    /\ handlers[h].status \in JobStatuses
    /\ handlers[h].jobID \in DOMAIN jobs

\* The step is CancelJob's UpdateJobStatus call on stored job j.
CancelStep(j) ==
    /\ j \in DOMAIN jobs
    /\ j \in DOMAIN jobs'
    /\ handlers' = handlers
    /\ jobs'[j] # jobs[j]

\* C1: every UpdateJobStatus call (from the status consumer or from CancelJob)
\* either follows an edge of the FSM and stores the new status, or is
\* rejected and leaves the store as it was.
C1_UpdateFollowsFSM ==
    [][/\ \A h \in HandlerIds : ConsumerUpdateStep(h) =>
            LET j == handlers[h].jobID IN
            IF <<jobs[j].status, handlers[h].status>> \in FSMEdges
            THEN jobs'[j].status = handlers[h].status
            ELSE jobs' = jobs
       /\ \A j \in JobIds : CancelStep(j) =>
            <<jobs[j].status, JobStatusCancelled>> \in FSMEdges]_vars

\* C2: once a record is completed, failed or cancelled, no step changes its
\* status or its completed-at.
C2_TerminalImmutable ==
    [][\A j \in (DOMAIN jobs) \cap (DOMAIN jobs') :
          jobs[j].status \in TerminalStatuses =>
             /\ jobs'[j].status = jobs[j].status
             /\ jobs'[j].completedAt = jobs[j].completedAt]_vars

\* C3: started-at is zero until the first transition into processing, is set
\* by that transition, and never changes afterwards.
C3_StartedAtImmutable ==
    [][\A j \in (DOMAIN jobs) \cap (DOMAIN jobs') :
          /\ jobs[j].startedAt # 0 => jobs'[j].startedAt = jobs[j].startedAt
          /\ (jobs[j].startedAt = 0 /\ jobs'[j].startedAt # 0) =>
                (jobs[j].status # JobStatusProcessing
                   /\ jobs'[j].status = JobStatusProcessing)
          /\ (jobs[j].status # JobStatusProcessing
                /\ jobs'[j].status = JobStatusProcessing
                /\ jobs[j].startedAt = 0) => jobs'[j].startedAt # 0]_vars

\* C4: main() hands the job store to the NATS client before it starts the
\* jobs.status subscription, so a gateway that serves with a NATS client has
\* the subscription.
C4_StoreInjectedBeforeSubscribe ==
    /\ [][(mainPc = "subscribe" /\ mainPc' # "subscribe") => jobStoreSet]_vars
    /\ [](mainPc = "serving" /\ natsClient = "ok" => subscribed)

----------------------------------------------------------------------------
(* Claims about the load balancer *)

\* The instance a GetInstance step has just returned.
LastPick == serviceInstances[picks[Len(picks)] + 1]

\* C5: the counter map has a cell for exactly the ids of the snapshot, and an
\* UpdateInstances call keeps the value of every id the map had, drops the
\* ids the new snapshot lacks and starts every new id at zero.
C5_UpdateInstancesKeepsSurvivors ==
    /\ [](DOMAIN connectionCount = InstanceIdSet(serviceInstances))
    /\ [][lastOp' = "UpdateInstances" =>
            \A id \in DOMAIN connectionCount' :
               connectionCount'[id] =
                  IF id \in DOMAIN connectionCount THEN connectionCount[id] ELSE 0]_vars

\* An update replaced a snapshot by [b, c]: b kept its two requests in
\* flight, c has none, a is gone.
C5_Witness ==
    /\ lastOp = "UpdateInstances"
    /\ serviceInstances = <<"b", "c">>
    /\ DOMAIN connectionCount = {"b", "c"}
    /\ connectionCount["b"] = MaxInFlight
    /\ connectionCount["c"] = 0

\* C6: whatever the interleaving of InstanceBegin and InstanceEnd calls, a
\* counter only ever moves up by one or, from a value above zero, down by
\* one: it never goes below zero and never wraps.
C6_CounterNeverWraps ==
    [][\A id \in (DOMAIN connectionCount) \cap (DOMAIN connectionCount') :
          connectionCount'[id] # connectionCount[id] =>
             \/ connectionCount'[id] = connectionCount[id] + 1
             \/ /\ connectionCount[id] > 0
                /\ connectionCount'[id] = connectionCount[id] - 1]_vars

\* C7: under round robin the picks made since the snapshot was installed go
\* round the snapshot in order; every window of n picks holds each instance
\* once, and each instance has between floor(N/n) and ceil(N/n) of N picks.
C7_RoundRobinCyclic ==
    (lbType = RoundRobin /\ Len(serviceInstances) > 0) =>
       LET n == Len(serviceInstances)
           N == Len(picks)
       IN /\ \A i \in 1 .. (N - 1) : picks[i + 1] = (picks[i] + 1) % n
          /\ \A i \in 1 .. (N - n + 1) :
                {picks[k] : k \in i .. (i + n - 1)} = 0 .. (n - 1)
          /\ \A idx \in 0 .. (n - 1) :
                LET times == Cardinality({k \in DOMAIN picks : picks[k] = idx})
                IN /\ times >= N \div n
                   /\ times <= (N + n - 1) \div n

\* Four calls on [a, b] returned b, a, b, a.
C7_Witness ==
    /\ lbType = RoundRobin
    /\ serviceInstances = <<"a", "b">>
    /\ picks = <<1, 0, 1, 0>>

\* C8: under least connections a GetInstance call returns an instance whose
\* counter is the smallest of the snapshot, and every instance before it in
\* the snapshot has a larger counter.
C8_LeastConnectionsFirstMin ==
    [][(lbType = LeastConnections /\ lastOp' = "GetInstance"
          /\ Len(picks') = Len(picks) + 1) =>
         LET idx == picks'[Len(picks')]
             least == connectionCount[serviceInstances[idx + 1]]
         IN \A k \in DOMAIN serviceInstances :
               /\ least <= connectionCount[serviceInstances[k]]
               /\ k < idx + 1 => least < connectionCount[serviceInstances[k]]]_vars

\* On [b, c] with b busy and c free, GetInstance has just returned c.
C8_Witness ==
    /\ lbType = LeastConnections
    /\ lastOp = "GetInstance"
    /\ serviceInstances = <<"b", "c">>
    /\ connectionCount["b"] = MaxInFlight
    /\ connectionCount["c"] = 0
    /\ picks # <<>>
    /\ LastPick = "c"

----------------------------------------------------------------------------
(* Claims about the proxy *)

\* The forward of caller c's request fails with a transport error in this step.
UpstreamFailStep(c) ==
    callers[c].pc = "forwarding" /\ callers'[c].outcome = "upstream_failed"

\* The request of caller c runs getServiceInstance in this step.
AcquireStep(c) == callers[c].pc = "start" /\ callers'[c].pc # "start"

\* No instance is available: the first discovery is empty, or the load
\* balancer's snapshot is empty.
NoInstanceAvailable ==
    \/ ~lbExists /\ DiscoverServiceErr = "nil" /\ Len(registry) = 0
    \/ lbExists /\ Len(serviceInstances) = 0

\* C9: a request that finds no instance is answered 503 and its step leaves
\* every counter alone; it never calls InstanceBegin, InstanceEnd or the
\* upstream; a request that finds a non-empty snapshot gets an instance.
C9_NoInstanceIs503 ==
    /\ [][\A c \in CallerIds : AcquireStep(c) =>
             /\ NoInstanceAvailable =>
                   /\ callers'[c].pc = "resp503"
                   /\ callers'[c].err # "nil"
                   /\ connectionCount' = connectionCount
             /\ (lbExists /\ Len(serviceInstances) > 0) =>
                   /\ callers'[c].pc = "acquired"
                   /\ callers'[c].inst \in InstanceIdSet(serviceInstances)]_vars
    /\ [][\A c \in CallerIds :
             callers[c].pc = "resp503" => callers'[c] = callers[c]]_vars
    /\ [](\A c \in CallerIds : callers[c].pc = "resp503" =>
             /\ callers[c].begins = 0
             /\ callers[c].ends = 0
             /\ callers[c].forwards = 0)

\* One request met an empty first discovery and got 503; after instances
\* registered, the next request made the load balancer and holds an instance.
C9_Witness ==
    \E c1, c2 \in CallerIds :
        /\ callers[c1].pc = "resp503"
        /\ callers[c1].err = "no instances available for service"
        /\ callers[c2].pc = "acquired"
        /\ callers[c2].inst \in InstanceIdSet(serviceInstances)

\* The moves of a request that holds an instance.
RequestEdges ==
    {<<"acquired", "forwarding">>,
     <<"forwarding", "ok">>, <<"forwarding", "upstream_failed">>,
     <<"forwarding", "panic">>,
     <<"ok", "end_loaded">>, <<"upstream_failed", "end_loaded">>,
     <<"panic", "end_loaded">>,
     <<"ok", "released">>, <<"upstream_failed", "released">>,
     <<"panic", "released">>,
     <<"end_loaded", "released">>}

\* The calls a request has made by the time it is at pc:
\* <<InstanceBegin, proxy.ServeHTTP, InstanceEnd>>.
CallsAt(pc) ==
    CASE pc \in {"start", "resp503", "acquired"} -> <<0, 0, 0>>
      [] pc = "forwarding" -> <<1, 0, 0>>
      [] pc \in ForwardOutcomes -> <<1, 1, 0>>
      [] pc \in {"end_loaded", "released"} -> <<1, 1, 1>>
      [] OTHER -> <<-1, -1, -1>>

\* C10: a request that holds an instance calls InstanceBegin once, then
\* forwards once, then - however the forward ends - calls InstanceEnd once,
\* moving only along the edges above; and it is eventually released.
C10_BeginForwardEnd ==
    /\ [](\A c \in CallerIds :
             <<callers[c].begins, callers[c].forwards, callers[c].ends>>
                = CallsAt(callers[c].pc))
    /\ [][\A c \in CallerIds :
             (callers[c].pc # "start" /\ callers'[c].pc # callers[c].pc) =>
                <<callers[c].pc, callers'[c].pc>> \in RequestEdges]_vars
    /\ \A c \in CallerIds :
          (callers[c].pc = "acquired") ~> (callers[c].pc = "released")

\* Both requests are released, one after a panic of the forward and one
\* after an upstream error, each with one InstanceBegin and one InstanceEnd.
C10_Witness ==
    \E c1, c2 \in CallerIds :
        /\ callers[c1].pc = "released" /\ callers[c1].outcome = "panic"
        /\ callers[c2].pc = "released" /\ callers[c2].outcome = "upstream_failed"
        /\ callers[c1].begins = 1 /\ callers[c1].ends = 1
        /\ callers[c2].begins = 1 /\ callers[c2].ends = 1

\* C11: a forward that fails with a transport error answers 502 "Bad
\* Gateway" and adds exactly one to the error counter; the request asks
\* GetInstance once and forwards once, before and after the failure.
C11_BadGatewayNoRetry ==
    /\ [][\A c \in CallerIds : UpstreamFailStep(c) =>
             /\ callers'[c].resp = "502 Bad Gateway"
             /\ metrics'.error = metrics.error + 1
             /\ counter' = counter]_vars
    /\ [](\A c \in CallerIds :
             /\ callers[c].gets <= 1
             /\ callers[c].forwards <= 1
             /\ callers[c].outcome = "upstream_failed" =>
                   /\ callers[c].gets = 1
                   /\ callers[c].forwards = 1
                   /\ callers[c].resp = "502 Bad Gateway")
    /\ [](metrics.error =
             Cardinality({c \in CallerIds : callers[c].outcome = "upstream_failed"}))

\* Both requests failed upstream: two 502 answers and an error counter of 2.
C11_Witness ==
    /\ \A c \in CallerIds :
          /\ callers[c].pc = "released"
          /\ callers[c].outcome = "upstream_failed"
          /\ callers[c].resp = "502 Bad Gateway"
    /\ metrics.error = MaxCallers

\* C12: the request that leaves for the upstream goes to the selected
\* instance's address:port, with path "/" followed by the wildcard part of
\* the client's path, and with the client's raw query.
C12_PathForwardedVerbatim ==
    route.pc = "sent" =>
       /\ route.outHost = TargetHost(route.inst)
       /\ route.outPath = <<"/">> \o route.rest
       /\ route.outQuery = route.query

----------------------------------------------------------------------------
(* Claims about the rate limiter *)

\* C13: in every state the bucket map and the last-seen map have the same
\* keys.
C13_SameKeys == DOMAIN limiters = DOMAIN lastSeen

\* C14: for every key, the requests admitted since its first (full) bucket
\* was made at t0 number at most b + r * (now - t0).
C14_AdmittedBound ==
    \A k \in DOMAIN admitted :
        admitted[k].n <= Burst + Rate * (rlNow - admitted[k].t0)

\* Request q gets its verdict from Allow in this step.
AllowStep(q) == rlReqs[q].pc = "allow" /\ rlReqs'[q].pc # "allow"

\* C15: a request either is admitted by its bucket and reaches the next
\* handler exactly once with nothing written by the middleware, or is denied,
\* answered 429 with Retry-After: 1 and the fixed body, and never reaches the
\* next handler.
C15_AdmitOrReject ==
    /\ [][\A q \in RlReqIds : AllowStep(q) =>
             LET tokens == TokensAt(buckets[rlReqs[q].limiter], rlNow) IN
             /\ tokens >= 1 =>
                   /\ rlReqs'[q].pc = "next"
                   /\ buckets'[rlReqs[q].limiter].tokens = tokens - 1
             /\ tokens < 1 => rlReqs'[q].pc = "rejected"]_vars
    /\ [](\A q \in RlReqIds :
             /\ rlReqs[q].pc = "next" =>
                   /\ rlReqs[q].nextCalls = 1
                   /\ rlReqs[q].resp = ""
                   /\ rlReqs[q].retryAfter = ""
             /\ rlReqs[q].pc = "rejected" =>
                   /\ rlReqs[q].nextCalls = 0
                   /\ rlReqs[q].resp = "429 Rate limit exceeded. Please try again later."
                   /\ rlReqs[q].retryAfter = "1"
             /\ rlReqs[q].pc \in {"idle", "get", "allow"} =>
                   /\ rlReqs[q].nextCalls = 0
                   /\ rlReqs[q].resp = "")

\* One request has been admitted and another, of the same client, rejected.
C15_Witness ==
    \E q1, q2 \in RlReqIds :
        /\ rlReqs[q1].pc = "next" /\ rlReqs[q1].nextCalls = 1
        /\ rlReqs[q2].pc = "rejected" /\ rlReqs[q2].retryAfter = "1"
        /\ rlReqs[q1].key = rlReqs[q2].key

\* The janitor finishes a sweep in this step: it deletes what it collected,
\* or it collected nothing.
SweepDone ==
    \/ janitor.pc = "delete" /\ janitor'.pc = "wait"
    \/ janitor.pc = "wait" /\ janitor'.pc = "wait"
          /\ janitor'.nextTick # janitor.nextTick

\* C16: when a sweep that read the clock at t is over, every key left in the
\* maps was seen at most TTL before t, and every key last seen more than TTL
\* before t is gone from both maps.
C16_SweepRemovesExpired ==
    [][SweepDone =>
         /\ \A k \in (DOMAIN limiters') \cup (DOMAIN lastSeen') :
               /\ k \in DOMAIN lastSeen'
               /\ janitor'.now - lastSeen'[k] <= TTL
         /\ \A k \in DOMAIN lastSeen :
               janitor'.now - lastSeen[k] > TTL =>
                  /\ k \notin DOMAIN lastSeen'
                  /\ k \notin DOMAIN limiters']_vars

\* A sweep has removed a client that had a bucket before.
C16_Witness ==
    /\ janitor.pc = "wait"
    /\ janitor.lastSweep > TTL
    /\ "ip1" \in DOMAIN admitted
    /\ "ip1" \notin DOMAIN limiters
    /\ "ip1" \notin DOMAIN lastSeen

----------------------------------------------------------------------------
(* Claims about the job store's sweeper, Add and Get *)

\* C17: when cleanupOldJobs has returned and no Add ran during the sweep, the
\* store holds no record with a terminal status whose completion is more
\* than the retention window before the sweep's time, and Count() <= maxJobs.
C17_SweepRetention ==
    [][(sweep.pc = "evict" /\ sweep'.pc = "done" /\ sweep'.quiet) =>
         /\ \A id \in DOMAIN jobs' :
               ~(/\ jobs'[id].status \in TerminalStatuses
                 /\ sweep'.now - jobs'[id].completedAt > Retention)
         /\ Count(jobs') <= maxJobs]_vars

\* What Add is to store for a record: QUEUED for an empty status, the time
\* of the call for a zero submitted-at, every other field as given.
Defaulted(info, t) ==
    [status |-> IF info.status = "" THEN JobStatusQueued ELSE info.status,
     submittedAt |-> IF info.submittedAt = 0 THEN t ELSE info.submittedAt,
     startedAt |-> info.startedAt,
     completedAt |-> info.completedAt,
     message |-> info.message]

\* An Add of a record whose id is in ids leaves the record, with the
\* defaults, under its id and every other record as it was.
AddStores(ids) ==
    (storeOp'.op = "add" /\ storeOp'.id \in ids) =>
        /\ DOMAIN jobs' = (DOMAIN jobs) \cup {storeOp'.id}
        /\ jobs'[storeOp'.id] = Defaulted(storeOp'.info, storeOp'.t)
        /\ \A k \in (DOMAIN jobs) \ {storeOp'.id} : jobs'[k] = jobs[k]

\* A Get(id) that follows an Add of a record with that id, the id being in
\* ids, returns the record with the defaults.
GetReturnsAdded(ids) ==
    (/\ storeOp.op = "get"
     /\ storeOp.prev.op = "add"
     /\ storeOp.prev.id = storeOp.id
     /\ storeOp.id \in ids) =>
        /\ storeOp.err = "nil"
        /\ storeOp.job = Defaulted(storeOp.prev.info, storeOp.prev.t)

\* C18 as stated: every Add(record) stores the record under its job id,
\* replacing the record with that id and leaving the others unchanged, with
\* QUEUED for an empty status and the current time for a zero submitted-at,
\* and a Get(id) that follows returns that record.
C18_AddStoresRecord ==
    [][AddStores(AddIds)]_vars /\ [](GetReturnsAdded(AddIds))

\* C18, amended: the same for every Add of a record whose job id is not
\* empty (AddJob ignores a record with an empty id).
C18_AddStoresRecord_nonEmptyId ==
    [][AddStores(JobIds)]_vars /\ [](GetReturnsAdded(JobIds))

\* A Get returned a record that replaced another one and was added without
\* status and submitted-at, while the store holds a second record.
C18_Witness ==
    /\ storeOp.op = "get"
    /\ storeOp.prev.op = "add"
    /\ storeOp.prev.id = storeOp.id
    /\ storeOp.prev.replaced
    /\ storeOp.prev.info.status = ""
    /\ storeOp.prev.info.submittedAt = 0
    /\ storeOp.job.status = JobStatusQueued
    /\ storeOp.job.submittedAt = storeOp.prev.t
    /\ Count(jobs) = 2

----------------------------------------------------------------------------
(* Claims about the order and the dropping of jobs.status messages *)

\* Every goroutine started for a delivered message has ended.
AllApplied == \A h \in DeliveryIds : handlers[h].pc = "idle"

\* C19: when two messages for a job that was in the store have been delivered
\* and applied, and queued -> first status -> second status are legal
\* transitions (so no message can have been rejected), the stored status is
\* the status of the message delivered second.
C19_LaterMessageWins ==
    (/\ Len(arrived) = 2
     /\ AllApplied
     /\ arrived[1].known
     /\ arrived[1].jobID = arrived[2].jobID
     /\ <<JobStatusQueued, arrived[1].status>> \in FSMEdges
     /\ <<arrived[1].status, arrived[2].status>> \in FSMEdges) =>
        jobs[arrived[2].jobID].status = arrived[2].status

\* The message goroutine h carries cannot be applied when it reaches
\* UpdateJobStatus: unknown status string, or job id not in the store.
CannotApply(h) ==
    \/ handlers[h].status \notin JobStatuses
    \/ handlers[h].jobID \notin DOMAIN jobs

\* C20: the step in which a goroutine handles a message that cannot be
\* applied leaves the store as it was - no record created, none changed -
\* and ends the goroutine, so it makes no later call of the store.
C20_UnappliedDropped ==
    [][\A h \in DeliveryIds :
          (handlers[h].pc = "update" /\ handlers'[h] # handlers[h] /\ CannotApply(h)) =>
              (jobs' = jobs /\ handlers'[h] = IdleHandler)]_vars

\* A message with an unknown status for a stored job and a message for a
\* job id that is not in the store were both handled: the store holds the
\* submitted record alone, as SubmitJob left it.
C20_Witness ==
    /\ Len(arrived) = 2
    /\ AllApplied
    /\ arrived[1].jobID = "j1" /\ arrived[1].known
    /\ arrived[1].status \notin JobStatuses
    /\ arrived[2].jobID = "j2"
    /\ arrived[2].status = JobStatusCompleted
    /\ DOMAIN jobs = {"j1"}
    /\ jobs["j1"].status = JobStatusQueued
    /\ jobs["j1"].message = MsgSubmitted

----------------------------------------------------------------------------
(* Claims about NATSClient.Subscribe *)

\* C21: a message whose handler panicked is eventually handled again.
C21_PanickedHandledAgain ==
    \A m \in MsgIds : (natsMsgs[m].panics > 0) ~> (natsMsgs[m].runs > 1)

----------------------------------------------------------------------------
(* Claims about the registry watchers *)

\* C22: of two UpdateInstances calls on the same load balancer, the later
\* one carries an index greater than or equal to the earlier one's.
C22_RevisionsNonDecreasing ==
    [][(lastApplied'.lb = lastApplied.lb) =>
          (lastApplied'.index >= lastApplied.index)]_vars

\* A watcher was started.
Started(w) == watchers[w].pc # "none"

\* The watcher has left its query loop and closed its channel, and its
\* receiving loop is not about to call UpdateInstances.
Stopped(w) ==
    /\ watchers[w].pc = "stopped"
    /\ watchers[w].closed
    /\ watchers[w].rpc # "update"

\* C23: once the owner has asked for the stop, every started watcher
\* eventually has stopped querying and closed its channel.
C23_WatcherStops ==
    \A w \in WatcherIds : (stopRequested /\ Started(w)) ~> Stopped(w)

----------------------------------------------------------------------------
(* Claims about the auth gate, the role gate and the handlers behind them *)

\* JWTAuth has handled the request.
GateActed == authReq.route \in GatedRoutes /\ authReq.pc \notin {"idle", "gate"}

\* The header is "Bearer <token>" with a token signed under the configured
\* secret with an HMAC alg and not expired at time t.
ValidBearer(h, t) ==
    /\ h.nparts = 2
    /\ h.scheme = "Bearer"
    /\ h.token.wellFormed
    /\ h.token.alg \in HMACAlgs
    /\ h.token.sig = "valid"
    /\ (h.token.exp = 0 \/ t < h.token.exp)

\* C24: the gate calls the protected handler only for a request with a valid
\* bearer token; every other request (no header, malformed header, expired
\* or unverifiable token) gets 401 and the handler is not called.
C24_GateAdmitsOnlyValid ==
    GateActed =>
        /\ authReq.gateNext <= 1
        /\ (authReq.gateNext = 1) => ValidBearer(authReq.header, authReq.gateTime)
        /\ ~ValidBearer(authReq.header, authReq.gateTime) =>
              /\ authReq.status = 401
              /\ authReq.gateNext = 0
              /\ authReq.pc = "done"

\* A correctly signed token that has expired was answered with 401.
C24_Witness ==
    /\ GateActed
    /\ authReq.header.nparts = 2 /\ authReq.header.scheme = "Bearer"
    /\ authReq.header.token.alg = "HS256"
    /\ authReq.header.token.sig = "valid"
    /\ authReq.header.token.exp # 0
    /\ authReq.gateTime >= authReq.header.token.exp
    /\ authReq.status = 401
    /\ authReq.gateNext = 0

\* The request carried "Bearer <token>" with a well-formed token whose alg
\* is not an HMAC alg.
NonHMACBearer ==
    /\ authReq.header.nparts = 2
    /\ authReq.header.scheme = "Bearer"
    /\ authReq.header.token.wellFormed
    /\ authReq.header.token.alg \notin HMACAlgs

\* C25: every token with a non-HMAC alg gets one and the same rejection -
\* 401 with the body of an invalid token, no context, no call of the handler -
\* whatever its signature, claims and expiry are.
C25_NonHMACRejected ==
    (GateActed /\ NonHMACBearer) =>
        /\ authReq.status = 401
        /\ authReq.body = "Unauthorized: invalid token"
        /\ authReq.gateNext = 0
        /\ authReq.ctx = <<>>
        /\ authReq.pc = "done"

\* An expired alg-none token with an empty signature and the admin role was
\* rejected.
C25_Witness ==
    /\ GateActed /\ NonHMACBearer
    /\ authReq.header.token.alg = "none"
    /\ authReq.header.token.sig = ""
    /\ authReq.header.token.role = "admin"
    /\ authReq.header.token.exp # 0
    /\ authReq.gateTime >= authReq.header.token.exp
    /\ authReq.status = 401

\* RequireRole has handled the request.
RoleActed ==
    /\ authReq.route \in {"guarded", "roleOnly"}
    /\ authReq.pc \in {"handler", "done"}
    /\ authReq.route = "guarded" => authReq.gateNext = 1

\* The context carries a principal whose role is the required one or admin.
RoleAllowed ==
    /\ CtxHas(authReq.ctx, UserRoleContextKey)
    /\ \/ CtxValue(authReq.ctx, UserRoleContextKey) = authReq.required
       \/ CtxValue(authReq.ctx, UserRoleContextKey) = "admin"

\* RequireRole called next exactly when allowed holds, and answered 403
\* without calling next otherwise.
RoleGate(allowed) ==
    RoleActed =>
        IF allowed
        THEN authReq.roleNext = 1 /\ authReq.status # 403
        ELSE authReq.roleNext = 0 /\ authReq.status = 403 /\ authReq.pc = "done"

\* C26 as stated: RequireRole(required) calls next exactly when the
\* principal's role is required or admin, for every required role.
C26_RoleGate_anyRequired == RoleGate(RoleAllowed)

\* C26: RequireRole(required) calls next exactly when the principal's role is
\* not empty and is required or admin; in every other case (different role,
\* empty role, no principal) it answers 403 and does not call next.
C26_RoleGate ==
    RoleGate(RoleAllowed /\ CtxValue(authReq.ctx, UserRoleContextKey) # "")

\* A principal with the required role, which is not admin, reached the
\* handler behind RequireRole.
C26_Witness ==
    /\ RoleActed
    /\ authReq.route = "guarded"
    /\ authReq.required = "user"
    /\ CtxValue(authReq.ctx, UserRoleContextKey) = "user"
    /\ authReq.roleNext = 1
    /\ authReq.status = 200

\* The request passed the gate and its handler has answered.
Served(rt) == authReq.route = rt /\ authReq.pc = "done" /\ authReq.gateNext = 1

\* C28: a job created by an authenticated POST has the gate's user id as its
\* owner; the job listing of an authenticated principal answers with the
\* jobs that principal owns; the admin listing sees the gate's role.
C28_OwnerIsPrincipal ==
    /\ Served("submit") =>
          jobOwners[Len(jobOwners)] = CtxValue(authReq.ctx, UserIDContextKey)
    /\ Served("list") =>
          /\ authReq.status = 200
          /\ authReq.listed =
                ListJobsByUser(jobOwners, CtxValue(authReq.ctx, UserIDContextKey))
    /\ (Served("listByStatus") /\ CtxValue(authReq.ctx, UserRoleContextKey) = "admin") =>
          authReq.status = 200

----------------------------------------------------------------------------
(* Claims about the shutdown of the gateway *)

\* server.Shutdown has returned.
ShutdownReturned == shut.pc \in {"defers", "exited"} /\ shut.err # "HTTP server error"

\* conn.Drain() has been called on the NATS connection.
BrokerClosing == shut.broker \in {"draining", "closed"}

\* Deregister was deferred: the gateway has put its entry into Consul.
DeregisterDeferred == "Deregister" \in {shut.defers[i] : i \in DOMAIN shut.defers}

\* Deregister has been called for the gateway's entry.
DeregisterCalled ==
    /\ DeregisterDeferred
    /\ ShutdownReturned
    /\ "Deregister" \notin {shut.stack[i] : i \in DOMAIN shut.stack}

\* The order of the shutdown: the listeners are closed and server.Shutdown
\* has returned - with nothing in flight, or after the deadline - before the
\* NATS connection is drained, and that connection is closed before
\* Deregister is called.
ShutdownOrder ==
    /\ ShutdownReturned =>
          /\ ~shut.listening
          /\ shut.err = "nil" => shut.left = 0
    /\ BrokerClosing => ShutdownReturned
    /\ DeregisterCalled => shut.broker \in {"none", "closed"}
    /\ (DeregisterDeferred /\ ~shut.registered) => DeregisterCalled

\* C27: on SIGINT/SIGTERM the server stops accepting and waits for the
\* requests in flight up to the deadline, then the NATS connection is drained
\* and closed, then the gateway's entry is deregistered; the connection is
\* not closed and the entry not deregistered while a request is still served.
C27_ShutdownOrder ==
    /\ ShutdownOrder
    /\ (BrokerClosing \/ DeregisterCalled) => shut.inflight = 0

----------------------------------------------------------------------------
(* Claims about the cursor and the counter map across snapshot replacements *)

\* C29: UpdateInstances leaves the round-robin cursor as it is, and the
\* GetInstance that follows a snapshot replacement picks the index
\* (cursor + 1) modulo the length of the new snapshot, inside that snapshot.
C29_CursorKeptAcrossUpdate ==
    /\ [][(lastOp' = "UpdateInstances") => counter' = counter]_vars
    /\ [][(lbType = RoundRobin /\ lastOp = "UpdateInstances"
            /\ lastOp' = "GetInstance" /\ Len(serviceInstances) > 0) =>
              /\ counter' = counter + 1
              /\ picks' = <<(counter + 1) % Len(serviceInstances)>>
              /\ picks'[1] \in 0 .. (Len(serviceInstances) - 1)]_vars

\* After one pick the snapshot was replaced by [a, b]; the call after the
\* replacement moved the cursor to 2 and returned a (index 2 % 2), where a
\* cursor started again would have returned b.
C29_Witness ==
    /\ lbType = RoundRobin
    /\ lastOp = "GetInstance"
    /\ serviceInstances = <<"a", "b">>
    /\ counter = 2
    /\ picks = <<0>>

\* C30: InstanceBegin(id) and InstanceEnd(id) for an id that has no counter
\* leave the counter map as it is - no counter is made, none is changed - and
\* the call returns.
C30_MissingIdNoChange ==
    [][\A c \in CallerIds, id \in InstanceIds :
          (id \notin DOMAIN connectionCount
             /\ (LBInstanceBegin(c, id) \/ LBInstanceEndLoad(c, id))) =>
                /\ connectionCount' = connectionCount
                /\ callers'[c].pc = "idle"]_vars

\* InstanceEnd has just returned with a as the only instance and a's counter
\* at its maximum: the call was for an id that is not in the map.
C30_Witness ==
    /\ lastOp = "InstanceEnd"
    /\ \A c \in CallerIds : callers[c].pc = "idle"
    /\ serviceInstances = <<"a">>
    /\ connectionCount["a"] = MaxInFlight

----------------------------------------------------------------------------
(* Claims about the queries of a watcher *)

\* The index the watcher holds after the first n queries of the log.
RECURSIVE IndexAfter(_)
IndexAfter(n) ==
    IF n = 0 THEN 0
    ELSE IF queryLog[n].failed THEN IndexAfter(n - 1)
    ELSE queryLog[n].ret

\* The watcher is past the send that follows its last query.
SendOver == watchers[1].pc \in {"query", "sendErr", "sleep"}

\* C31: lastIndex starts at 0, becomes the index of every successful
\* response, for which one snapshot is sent, and stays as it is on a failed
\* query, for which none is sent; so every query carries the index of the
\* last successful response before it.
C31_LastIndexFollowsResponses ==
    /\ watchers[1].lastIndex = IndexAfter(Len(queryLog))
    /\ \A i \in DOMAIN queryLog :
          /\ queryLog[i].wait = IndexAfter(i - 1)
          /\ queryLog[i].failed => queryLog[i].emits = 0
          /\ (~queryLog[i].failed /\ (i < Len(queryLog) \/ SendOver)) =>
                queryLog[i].emits = 1
          /\ queryLog[i].emits <= 1

\* A response with index 2, a failed query, and a retry with WaitIndex 2
\* that returned index 2 again; a snapshot was sent for both responses.
C31_Witness ==
    /\ Len(queryLog) = 3
    /\ queryLog[1] = [wait |-> 0, failed |-> FALSE, ret |-> 2, emits |-> 1]
    /\ queryLog[2].failed
    /\ queryLog[3] = [wait |-> 2, failed |-> FALSE, ret |-> 2, emits |-> 1]

----------------------------------------------------------------------------
(* Claims about concurrent requests, the buckets and the janitor *)

\* Request q is between GetLimiter's first lookup and its Allow.
InGetLimiter(q) == rlReqs[q].pc \in {"get", "allow"}

\* Every request that holds or is about to hold a bucket has the bucket the
\* map holds for its key.
SharedBucket ==
    \A q \in RlReqIds :
        (rlReqs[q].pc = "allow" \/ (rlReqs[q].pc = "get" /\ rlReqs[q].exists)) =>
            /\ rlReqs[q].key \in DOMAIN limiters
            /\ rlReqs[q].limiter = limiters[rlReqs[q].key]

\* C32: as long as no sweep removes a key, concurrent requests with the same
\* key make one bucket for it - a bucket is made only for a key that has
\* none - and every one of them draws from the bucket the map holds.
C32_OneBucketPerKey ==
    /\ [](rlNow <= TTL =>
            /\ SharedBucket
            /\ Len(buckets) = Cardinality(DOMAIN limiters))
    /\ [][(SharedBucket /\ DOMAIN limiters \subseteq DOMAIN limiters') =>
            /\ SharedBucket'
            /\ Len(buckets') - Len(buckets) =
                  Cardinality(DOMAIN limiters' \ DOMAIN limiters)]_vars

\* Two requests of one client both missed the first lookup; one bucket was
\* made and both hold it.
C32_Witness ==
    /\ \A q \in RlReqIds :
          /\ rlReqs[q].pc = "allow"
          /\ ~rlReqs[q].exists
          /\ rlReqs[q].key = "ip1"
          /\ rlReqs[q].limiter = 1
    /\ Len(buckets) = 1

\* C37: every key the janitor deletes was last seen more than TTL before the
\* moment of the deletion.
C37_DeletesOnlyExpired ==
    [][(janitor.pc = "delete" /\ janitor'.pc = "wait") =>
          \A k \in janitor.keysToDelete \cap DOMAIN lastSeen :
              rlNow - lastSeen[k] > TTL]_vars

----------------------------------------------------------------------------
(* Claims about the sweeper's two passes *)

\* The sweep's first pass deletes in this step.
FirstPassStep == sweep.pc = "delete" /\ sweep'.pc = "evict"

\* The sweep's second pass runs in this step.
SecondPassStep == sweep.pc = "evict" /\ sweep'.pc = "done"

\* Every record this step removes is terminal and completed more than the
\* retention window before the sweep's time.
RemovesOldTerminalOnly ==
    \A d \in (DOMAIN jobs) \ (DOMAIN jobs') :
        /\ jobs[d].status \in TerminalStatuses
        /\ sweep.now - jobs[d].completedAt > Retention

----------------------------------------------------------------------------
(* Claims about the health endpoint *)

\* C34: a request to /health is never answered 429 by the rate limiter,
\* whatever the client has sent before.
C34_HealthNeverLimited ==
    \A q \in RlReqIds :
        rlPaths[q] = "/health" =>
            /\ rlReqs[q].pc # "rejected"
            /\ rlReqs[q].resp \in {"", "200 OK"}

----------------------------------------------------------------------------
(* Claims about the lazy creation of a service's load balancer *)

\* C35: whatever the interleaving of the first requests for a service, at
\* most one load balancer is ever stored for it and at most one watcher is
\* started for it.
C35_OneBalancerOneWatcher ==
    /\ lbCreated <= 1
    /\ Cardinality({w \in WatcherIds : Started(w)}) <= 1

----------------------------------------------------------------------------
(* Claims about the consumer's re-add and the concurrent store operations *)

\* The goroutine h of the status consumer stores the record it read with
\* GetJob back with AddJob.
ReAddStep(h) ==
    /\ handlers[h].pc \in {"started", "ended"}
    /\ handlers'[h] # handlers[h]

\* C36: the consumer's re-add of a record never changes the status the store
\* holds for that id at the time of the re-add (a status committed by a
\* concurrent UpdateJobStatus is kept), and it never creates a record for an
\* id the store does not hold.
C36_ReAddKeepsStatus ==
    [][\A h \in HandlerIds :
          ReAddStep(h) =>
             LET j == handlers[h].jobID IN
             IF j \in DOMAIN jobs
             THEN j \in DOMAIN jobs' /\ jobs'[j].status = jobs[j].status
             ELSE j \notin DOMAIN jobs']_vars

----------------------------------------------------------------------------
(* Claims about the in-flight counters across snapshots *)

\* Request c has called InstanceBegin for the instance it holds and its
\* InstanceEnd has not returned yet.
InFlight(c) ==
    callers[c].pc \in ({"forwarding", "end_loaded"} \cup ForwardOutcomes)

\* The requests in flight on instance id.
InFlightOn(id) == {c \in CallerIds : InFlight(c) /\ callers[c].inst = id}

\* C38: for every id of the current snapshot, the in-flight counter equals
\* the number of requests that called InstanceBegin for it and have not yet
\* finished InstanceEnd, also after the id left one snapshot and came back
\* with a later one.
C38_CounterIsInFlight ==
    \A id \in DOMAIN connectionCount :
        connectionCount[id] = Cardinality(InFlightOn(id))

----------------------------------------------------------------------------
(* Claims about the job handlers and the broker *)

\* A SubmitJob or CancelJob request is answered in this step.
BrokerStep == lastReq'.n # lastReq.n

\* C39: a SubmitJob answered 500 because the publish failed leaves no record
\* for its id in the store, and a CancelJob answered 500 because the publish
\* failed leaves the status of its job as it was.
C39_AllOrNothing ==
    [][(BrokerStep /\ lastReq'.code = 500) =>
          LET j == lastReq'.id IN
          IF lastReq'.op = "SubmitJob"
          THEN j \notin DOMAIN jobs'
          ELSE jobs'[j].status = jobs[j].status]_vars

----------------------------------------------------------------------------
(* Claims about the upstream outcome counters *)

\* The forward of caller c's request ends in this step.
ForwardStep(c) == callers[c].pc = "forwarding" /\ callers'[c].pc # "forwarding"

\* C40: a request that reaches the forward adds one to exactly one of the
\* two upstream outcome counters, success or error, and never to both.
C40_OneOutcomeCounted ==
    [][\A c \in CallerIds : ForwardStep(c) =>
          \/ /\ metrics'.success = metrics.success + 1
             /\ metrics'.error = metrics.error
          \/ /\ metrics'.success = metrics.success
             /\ metrics'.error = metrics.error + 1]_vars

====
